---- MODULE Spec2Model ----
(***************************************************************************)
(* A model of the coaching-bot analysis scripts: the session/message       *)
(* loaders, the exclusion filter, the coaching-method and version          *)
(* classifiers, the rating extractor and the dashboard aggregations of     *)
(* version_comparison_simple.py, with the copies of these heuristics kept  *)
(* in the sibling scripts.                                                 *)
(*                                                                         *)
(* Strings are TLA+ strings; wherever the code looks inside a string       *)
(* (startswith, endswith, lower, strip, split, `in`, regular expressions)  *)
(* the model works on its spelling, the sequence of its characters given   *)
(* by Chars.  An optional value (Python None or a value) is a sequence of  *)
(* length 0 or 1.                                                          *)
(***************************************************************************)
EXTENDS Integers, Sequences, FiniteSets, TLC

VARIABLES
    session,        \* the session a classifier or extractor is applied to
    messages,       \* its message list, or None
    op,             \* the operation performed last
    result,         \* what it returned
    loader,         \* the script whose loader runs
    session_files,  \* the session files of the loop in progress
    message_files,  \* the message files of the loop in progress
    sessions,       \* the loaded session records
    messages_data,  \* the loaded message lists, by session id
    filter_participant_ids  \* LowGSDashboard's target participant ids, lower-cased

vars == <<session, messages, op, result, loader, session_files, message_files,
          sessions, messages_data, filter_participant_ids>>

loadVars == <<loader, session_files, message_files, sessions, messages_data,
              filter_participant_ids>>

\* ---- spelling table: begin ----
Chars ==
    ("v1" :> <<"v", "1">>) @@
    ("v4" :> <<"v", "4">>) @@
    ("v5" :> <<"v", "5">>) @@
    ("v12" :> <<"v", "1", "2">>) @@
    ("v13" :> <<"v", "1", "3">>) @@
    ("V5" :> <<"V", "5">>) @@
    ("vx" :> <<"v", "x">>) @@
    ("v" :> <<"v">>) @@
    ("coach_method_scenarios" :> <<"c", "o", "a", "c", "h", "_", "m", "e", "t", "h", "o", "d", "_", "s", "c", "e", "n", "a", "r", "i", "o", "s">>) @@
    ("coach_method_microlearning" :> <<"c", "o", "a", "c", "h", "_", "m", "e", "t", "h", "o", "d", "_", "m", "i", "c", "r", "o", "l", "e", "a", "r", "n", "i", "n", "g">>) @@
    ("coach_method_microlearning_vaccine" :> <<"c", "o", "a", "c", "h", "_", "m", "e", "t", "h", "o", "d", "_", "m", "i", "c", "r", "o", "l", "e", "a", "r", "n", "i", "n", "g", "_", "v", "a", "c", "c", "i", "n", "e">>) @@
    ("coach_method_motivational_interviewing" :> <<"c", "o", "a", "c", "h", "_", "m", "e", "t", "h", "o", "d", "_", "m", "o", "t", "i", "v", "a", "t", "i", "o", "n", "a", "l", "_", "i", "n", "t", "e", "r", "v", "i", "e", "w", "i", "n", "g">>) @@
    ("coach_method_visit_debrief" :> <<"c", "o", "a", "c", "h", "_", "m", "e", "t", "h", "o", "d", "_", "v", "i", "s", "i", "t", "_", "d", "e", "b", "r", "i", "e", "f">>) @@
    ("coach_method_" :> <<"c", "o", "a", "c", "h", "_", "m", "e", "t", "h", "o", "d", "_">>) @@
    ("refrigerator_example" :> <<"r", "e", "f", "r", "i", "g", "e", "r", "a", "t", "o", "r", "_", "e", "x", "a", "m", "p", "l", "e">>) @@
    ("not_refrigerator_example" :> <<"n", "o", "t", "_", "r", "e", "f", "r", "i", "g", "e", "r", "a", "t", "o", "r", "_", "e", "x", "a", "m", "p", "l", "e">>) @@
    ("unreleased" :> <<"u", "n", "r", "e", "l", "e", "a", "s", "e", "d">>) @@
    ("v5_unreleased" :> <<"v", "5", "_", "u", "n", "r", "e", "l", "e", "a", "s", "e", "d">>) @@
    ("follow_up" :> <<"f", "o", "l", "l", "o", "w", "_", "u", "p">>) @@
    ("@dimagi.com" :> <<"@", "d", "i", "m", "a", "g", "i", ".", "c", "o", "m">>) @@
    ("tester@dimagi.com" :> <<"t", "e", "s", "t", "e", "r", "@", "d", "i", "m", "a", "g", "i", ".", "c", "o", "m">>) @@
    ("chw_01" :> <<"c", "h", "w", "_", "0", "1">>) @@
    ("chw_02" :> <<"c", "h", "w", "_", "0", "2">>) @@
    ("CHW_01" :> <<"C", "H", "W", "_", "0", "1">>) @@
    ("" :> <<>>) @@
    ("roleplay" :> <<"r", "o", "l", "e", "p", "l", "a", "y">>) @@
    ("role-play" :> <<"r", "o", "l", "e", "-", "p", "l", "a", "y">>) @@
    ("scenario 1:" :> <<"s", "c", "e", "n", "a", "r", "i", "o", " ", "1", ":">>) @@
    ("scenario 2:" :> <<"s", "c", "e", "n", "a", "r", "i", "o", " ", "2", ":">>) @@
    ("quiz" :> <<"q", "u", "i", "z">>) @@
    ("microlearning" :> <<"m", "i", "c", "r", "o", "l", "e", "a", "r", "n", "i", "n", "g">>) @@
    ("short quiz questions" :> <<"s", "h", "o", "r", "t", " ", "q", "u", "i", "z", " ", "q", "u", "e", "s", "t", "i", "o", "n", "s">>) @@
    ("motivational interview" :> <<"m", "o", "t", "i", "v", "a", "t", "i", "o", "n", "a", "l", " ", "i", "n", "t", "e", "r", "v", "i", "e", "w">>) @@
    ("motivational interviewing" :> <<"m", "o", "t", "i", "v", "a", "t", "i", "o", "n", "a", "l", " ", "i", "n", "t", "e", "r", "v", "i", "e", "w", "i", "n", "g">>) @@
    ("visit debrief" :> <<"v", "i", "s", "i", "t", " ", "d", "e", "b", "r", "i", "e", "f">>) @@
    ("home visits" :> <<"h", "o", "m", "e", " ", "v", "i", "s", "i", "t", "s">>) @@
    ("most recent visit" :> <<"m", "o", "s", "t", " ", "r", "e", "c", "e", "n", "t", " ", "v", "i", "s", "i", "t">>) @@
    ("Let us try a Roleplay today" :> <<"L", "e", "t", " ", "u", "s", " ", "t", "r", "y", " ", "a", " ", "R", "o", "l", "e", "p", "l", "a", "y", " ", "t", "o", "d", "a", "y">>) @@
    ("Time for a short quiz" :> <<"T", "i", "m", "e", " ", "f", "o", "r", " ", "a", " ", "s", "h", "o", "r", "t", " ", "q", "u", "i", "z">>) @@
    ("We will use motivational interviewing" :> <<"W", "e", " ", "w", "i", "l", "l", " ", "u", "s", "e", " ", "m", "o", "t", "i", "v", "a", "t", "i", "o", "n", "a", "l", " ", "i", "n", "t", "e", "r", "v", "i", "e", "w", "i", "n", "g">>) @@
    ("Tell me about your most recent visit" :> <<"T", "e", "l", "l", " ", "m", "e", " ", "a", "b", "o", "u", "t", " ", "y", "o", "u", "r", " ", "m", "o", "s", "t", " ", "r", "e", "c", "e", "n", "t", " ", "v", "i", "s", "i", "t">>) @@
    ("A quiz and then a roleplay" :> <<"A", " ", "q", "u", "i", "z", " ", "a", "n", "d", " ", "t", "h", "e", "n", " ", "a", " ", "r", "o", "l", "e", "p", "l", "a", "y">>) @@
    ("Hello, how are you?" :> <<"H", "e", "l", "l", "o", ",", " ", "h", "o", "w", " ", "a", "r", "e", " ", "y", "o", "u", "?">>) @@
    ("I want a roleplay" :> <<"I", " ", "w", "a", "n", "t", " ", "a", " ", "r", "o", "l", "e", "p", "l", "a", "y">>) @@
    ("how useful" :> <<"h", "o", "w", " ", "u", "s", "e", "f", "u", "l">>) @@
    ("rate" :> <<"r", "a", "t", "e">>) @@
    ("useful" :> <<"u", "s", "e", "f", "u", "l">>) @@
    ("session" :> <<"s", "e", "s", "s", "i", "o", "n">>) @@
    ("coaching" :> <<"c", "o", "a", "c", "h", "i", "n", "g">>) @@
    ("number" :> <<"n", "u", "m", "b", "e", "r">>) @@
    ("one" :> <<"o", "n", "e">>) @@
    ("two" :> <<"t", "w", "o">>) @@
    ("three" :> <<"t", "h", "r", "e", "e">>) @@
    ("four" :> <<"f", "o", "u", "r">>) @@
    ("five" :> <<"f", "i", "v", "e">>) @@
    ("How useful was this session? Please rate it from 1 to 5" :> <<"H", "o", "w", " ", "u", "s", "e", "f", "u", "l", " ", "w", "a", "s", " ", "t", "h", "i", "s", " ", "s", "e", "s", "s", "i", "o", "n", "?", " ", "P", "l", "e", "a", "s", "e", " ", "r", "a", "t", "e", " ", "i", "t", " ", "f", "r", "o", "m", " ", "1", " ", "t", "o", " ", "5">>) @@
    ("Thanks for chatting, goodbye" :> <<"T", "h", "a", "n", "k", "s", " ", "f", "o", "r", " ", "c", "h", "a", "t", "t", "i", "n", "g", ",", " ", "g", "o", "o", "d", "b", "y", "e">>) @@
    ("Please rate our chat\nfrom 1 to 5" :> <<"P", "l", "e", "a", "s", "e", " ", "r", "a", "t", "e", " ", "o", "u", "r", " ", "c", "h", "a", "t", "\n", "f", "r", "o", "m", " ", "1", " ", "t", "o", " ", "5">>) @@
    ("Here are 3 coaching tips" :> <<"H", "e", "r", "e", " ", "a", "r", "e", " ", "3", " ", "c", "o", "a", "c", "h", "i", "n", "g", " ", "t", "i", "p", "s">>) @@
    ("5" :> <<"5">>) @@
    (" 3 " :> <<" ", "3", " ">>) @@
    ("Four" :> <<"F", "o", "u", "r">>) @@
    ("6" :> <<"6">>) @@
    ("I would say 4 out of 5" :> <<"I", " ", "w", "o", "u", "l", "d", " ", "s", "a", "y", " ", "4", " ", "o", "u", "t", " ", "o", "f", " ", "5">>) @@
    ("It was great" :> <<"I", "t", " ", "w", "a", "s", " ", "g", "r", "e", "a", "t">>) @@
    ("15" :> <<"1", "5">>) @@
    ("My answer is 2 because the examples were clear and the advice was practical, and I will use it on my next home visit" :> <<"M", "y", " ", "a", "n", "s", "w", "e", "r", " ", "i", "s", " ", "2", " ", "b", "e", "c", "a", "u", "s", "e", " ", "t", "h", "e", " ", "e", "x", "a", "m", "p", "l", "e", "s", " ", "w", "e", "r", "e", " ", "c", "l", "e", "a", "r", " ", "a", "n", "d", " ", "t", "h", "e", " ", "a", "d", "v", "i", "c", "e", " ", "w", "a", "s", " ", "p", "r", "a", "c", "t", "i", "c", "a", "l", ",", " ", "a", "n", "d", " ", "I", " ", "w", "i", "l", "l", " ", "u", "s", "e", " ", "i", "t", " ", "o", "n", " ", "m", "y", " ", "n", "e", "x", "t", " ", "h", "o", "m", "e", " ", "v", "i", "s", "i", "t">>) @@
    ("messages_" :> <<"m", "e", "s", "s", "a", "g", "e", "s", "_">>) @@
    ("messages_s1.json" :> <<"m", "e", "s", "s", "a", "g", "e", "s", "_", "s", "1", ".", "j", "s", "o", "n">>) @@
    ("messages_s2.json" :> <<"m", "e", "s", "s", "a", "g", "e", "s", "_", "s", "2", ".", "j", "s", "o", "n">>) @@
    ("messages_messages_s1.json" :> <<"m", "e", "s", "s", "a", "g", "e", "s", "_", "m", "e", "s", "s", "a", "g", "e", "s", "_", "s", "1", ".", "j", "s", "o", "n">>) @@
    ("s1" :> <<"s", "1">>) @@
    ("s2" :> <<"s", "2">>) @@
    ("s3" :> <<"s", "3">>) @@
    ("s4" :> <<"s", "4">>) @@
    (".json" :> <<".", "j", "s", "o", "n">>) @@
    ("Control bot" :> <<"C", "o", "n", "t", "r", "o", "l", " ", "b", "o", "t">>) @@
    ("Coaching bot V3" :> <<"C", "o", "a", "c", "h", "i", "n", "g", " ", "b", "o", "t", " ", "V", "3">>) @@
    ("Coaching bot V4" :> <<"C", "o", "a", "c", "h", "i", "n", "g", " ", "b", "o", "t", " ", "V", "4">>) @@
    ("Coaching bot V5" :> <<"C", "o", "a", "c", "h", "i", "n", "g", " ", "b", "o", "t", " ", "V", "5">>) @@
    ("Coaching bot V6" :> <<"C", "o", "a", "c", "h", "i", "n", "g", " ", "b", "o", "t", " ", "V", "6">>) @@
    ("rating" :> <<"r", "a", "t", "i", "n", "g">>) @@
    ("Control" :> <<"C", "o", "n", "t", "r", "o", "l">>) @@
    ("My answer is 2 because the examples were clear and the advice was practical, and I will use it on m" :> <<"M", "y", " ", "a", "n", "s", "w", "e", "r", " ", "i", "s", " ", "2", " ", "b", "e", "c", "a", "u", "s", "e", " ", "t", "h", "e", " ", "e", "x", "a", "m", "p", "l", "e", "s", " ", "w", "e", "r", "e", " ", "c", "l", "e", "a", "r", " ", "a", "n", "d", " ", "t", "h", "e", " ", "a", "d", "v", "i", "c", "e", " ", "w", "a", "s", " ", "p", "r", "a", "c", "t", "i", "c", "a", "l", ",", " ", "a", "n", "d", " ", "I", " ", "w", "i", "l", "l", " ", "u", "s", "e", " ", "i", "t", " ", "o", "n", " ", "m">>) @@
    ("My answer is 2 because the examples were clear and the advice was practical, and I will use it on my" :> <<"M", "y", " ", "a", "n", "s", "w", "e", "r", " ", "i", "s", " ", "2", " ", "b", "e", "c", "a", "u", "s", "e", " ", "t", "h", "e", " ", "e", "x", "a", "m", "p", "l", "e", "s", " ", "w", "e", "r", "e", " ", "c", "l", "e", "a", "r", " ", "a", "n", "d", " ", "t", "h", "e", " ", "a", "d", "v", "i", "c", "e", " ", "w", "a", "s", " ", "p", "r", "a", "c", "t", "i", "c", "a", "l", ",", " ", "a", "n", "d", " ", "I", " ", "w", "i", "l", "l", " ", "u", "s", "e", " ", "i", "t", " ", "o", "n", " ", "m", "y">>) @@
    ("5                                                                                                   " :> <<"5", " ", " ", " ", " ", " ", " ", " ", " ", " ", " ", " ", " ", " ", " ", " ", " ", " ", " ", " ", " ", " ", " ", " ", " ", " ", " ", " ", " ", " ", " ", " ", " ", " ", " ", " ", " ", " ", " ", " ", " ", " ", " ", " ", " ", " ", " ", " ", " ", " ", " ", " ", " ", " ", " ", " ", " ", " ", " ", " ", " ", " ", " ", " ", " ", " ", " ", " ", " ", " ", " ", " ", " ", " ", " ", " ", " ", " ", " ", " ", " ", " ", " ", " ", " ", " ", " ", " ", " ", " ", " ", " ", " ", " ", " ", " ", " ", " ", " ", " ">>) @@
    ("                                                                                I would say 4 out of 5" :> <<" ", " ", " ", " ", " ", " ", " ", " ", " ", " ", " ", " ", " ", " ", " ", " ", " ", " ", " ", " ", " ", " ", " ", " ", " ", " ", " ", " ", " ", " ", " ", " ", " ", " ", " ", " ", " ", " ", " ", " ", " ", " ", " ", " ", " ", " ", " ", " ", " ", " ", " ", " ", " ", " ", " ", " ", " ", " ", " ", " ", " ", " ", " ", " ", " ", " ", " ", " ", " ", " ", " ", " ", " ", " ", " ", " ", " ", " ", " ", " ", "I", " ", "w", "o", "u", "l", "d", " ", "s", "a", "y", " ", "4", " ", "o", "u", "t", " ", "o", "f", " ", "5">>) @@
    ("7 or 8" :> <<"7", " ", "o", "r", " ", "8">>) @@
    ("10" :> <<"1", "0">>) @@
    (" five\n" :> <<" ", "f", "i", "v", "e", "\n">>) @@
    ("5 five 4" :> <<"5", " ", "f", "i", "v", "e", " ", "4">>) @@
    ("Five 4" :> <<"F", "i", "v", "e", " ", "4">>)
\* ---- spelling table: end ----

(***************************************************************************)
(* Python string primitives, on spellings.                                 *)
(***************************************************************************)
None == <<>>

Some(x) == <<x>>

Min(S) == CHOOSE x \in S : \A y \in S : x <= y

Max(S) == CHOOSE x \in S : \A y \in S : x >= y

LowerOf ==
    ("A" :> "a") @@ ("B" :> "b") @@ ("C" :> "c") @@ ("D" :> "d") @@ ("E" :> "e") @@
    ("F" :> "f") @@ ("G" :> "g") @@ ("H" :> "h") @@ ("I" :> "i") @@ ("J" :> "j") @@
    ("K" :> "k") @@ ("L" :> "l") @@ ("M" :> "m") @@ ("N" :> "n") @@ ("O" :> "o") @@
    ("P" :> "p") @@ ("Q" :> "q") @@ ("R" :> "r") @@ ("S" :> "s") @@ ("T" :> "t") @@
    ("U" :> "u") @@ ("V" :> "v") @@ ("W" :> "w") @@ ("X" :> "x") @@ ("Y" :> "y") @@
    ("Z" :> "z")

DigitValue ==
    ("0" :> 0) @@ ("1" :> 1) @@ ("2" :> 2) @@ ("3" :> 3) @@ ("4" :> 4) @@
    ("5" :> 5) @@ ("6" :> 6) @@ ("7" :> 7) @@ ("8" :> 8) @@ ("9" :> 9)

Whitespace == {" ", "\n", "\t"}

\* str.lower()
Lower(s) == [i \in 1..Len(s) |-> IF s[i] \in DOMAIN LowerOf THEN LowerOf[s[i]] ELSE s[i]]

\* sub in s
Contains(s, sub) ==
    \E i \in 1..(Len(s) - Len(sub) + 1) : SubSeq(s, i, i + Len(sub) - 1) = sub

\* s.startswith(p)
StartsWith(s, p) == Len(p) <= Len(s) /\ SubSeq(s, 1, Len(p)) = p

\* s.endswith(p)
EndsWith(s, p) == Len(p) <= Len(s) /\ SubSeq(s, Len(s) - Len(p) + 1, Len(s)) = p

\* s.isdigit()
IsDigit(s) == Len(s) > 0 /\ \A i \in 1..Len(s) : s[i] \in DOMAIN DigitValue

\* int(s), for a string of decimal digits
RECURSIVE IntOf(_)
IntOf(s) ==
    IF Len(s) = 0 THEN 0
    ELSE 10 * IntOf(SubSeq(s, 1, Len(s) - 1)) + DigitValue[s[Len(s)]]

\* s.strip()
Strip(s) ==
    LET keep == {i \in 1..Len(s) : s[i] \notin Whitespace}
    IN  IF keep = {} THEN <<>> ELSE SubSeq(s, Min(keep), Max(keep))

\* len(s.split()): the number of maximal runs of non-whitespace characters
WordCount(s) ==
    Cardinality({i \in 1..Len(s) :
        s[i] \notin Whitespace /\ (i = 1 \/ s[i - 1] \in Whitespace)})

(***************************************************************************)
(* Exclusion filter (version_comparison_simple.py and its copies).         *)
(***************************************************************************)
\* a variant of is_split_session that ignores the roles of the messages
is_split_session_empty_only(s, msgs) ==
    IF msgs = None THEN FALSE ELSE Len(msgs[1]) = 0

is_split_session(s, msgs) ==
    IF msgs = None THEN FALSE
    ELSE ~ \E i \in 1..Len(msgs[1]) : msgs[1][i].role = "user"

spike_is_split_session(s, msgs) ==
    IF msgs = None THEN FALSE
    ELSE ~ \E i \in 1..Len(msgs[1]) : msgs[1][i].role = "user"

\* `not messages` is true of None and of the empty list
Falsy(msgs) == msgs = None \/ Len(msgs[1]) = 0

SplitThreshold == 3

gs_is_split_session(s, msgs) ==
    IF Falsy(msgs) THEN TRUE
    ELSE Cardinality({i \in 1..Len(msgs[1]) : msgs[1][i].role = "user"}) < SplitThreshold

is_test_session(s) == EndsWith(Chars[s.participant], Chars["@dimagi.com"])

\* a variant of should_exclude_session that keeps the test sessions
should_exclude_session_split_only(s, msgs) == is_split_session(s, msgs)

should_exclude_session(s, msgs) == is_split_session(s, msgs) \/ is_test_session(s)

(***************************************************************************)
(* Coaching-method classifier: session tags, then message tags, then the   *)
(* keyword search over the assistant messages.                             *)
(***************************************************************************)
TagMethods ==
    ("coach_method_scenarios" :> "Scenario") @@
    ("coach_method_microlearning" :> "Microlearning") @@
    ("coach_method_microlearning_vaccine" :> "Microlearning vaccines") @@
    ("coach_method_motivational_interviewing" :> "Motivational interviewing") @@
    ("coach_method_visit_debrief" :> "Visit check in")

ScenarioKeywords == {"roleplay", "role-play", "scenario 1:", "scenario 2:"}

MicrolearningKeywords == {"quiz", "microlearning", "short quiz questions"}

MotivationalKeywords == {"motivational interview", "motivational interviewing"}

VisitKeywords == {"visit debrief", "home visits", "most recent visit"}

\* any(keyword in content for keyword in keywords)
AnyKeyword(content, keywords) == \E k \in keywords : Contains(content, Chars[k])

\* the for-loop over a tag list: the method of the first recognized tag
RECURSIVE TagLoop(_, _)
TagLoop(tags, i) ==
    IF i > Len(tags) THEN None
    ELSE IF tags[i] \in DOMAIN TagMethods THEN Some(TagMethods[tags[i]])
    ELSE TagLoop(tags, i + 1)

\* the for-loop over the messages' tag lists
RECURSIVE MessageTagLoop(_, _)
MessageTagLoop(msgs, i) ==
    IF i > Len(msgs) THEN None
    ELSE LET r == TagLoop(msgs[i].tags, 1)
         IN  IF r # None THEN r ELSE MessageTagLoop(msgs, i + 1)

\* a variant of the chain that tries Microlearning before Scenario
KeywordMethod_microlearning_first(content) ==
    LET c == Lower(Chars[content])
    IN  IF AnyKeyword(c, MicrolearningKeywords) THEN Some("Microlearning")
        ELSE IF AnyKeyword(c, ScenarioKeywords) THEN Some("Scenario")
        ELSE IF AnyKeyword(c, MotivationalKeywords) THEN Some("Motivational interviewing")
        ELSE IF AnyKeyword(c, VisitKeywords) THEN Some("Visit check in")
        ELSE None

\* the if/elif chain on one assistant message's lowered content
KeywordMethod(content) ==
    LET c == Lower(Chars[content])
    IN  IF AnyKeyword(c, ScenarioKeywords) THEN Some("Scenario")
        ELSE IF AnyKeyword(c, MicrolearningKeywords) THEN Some("Microlearning")
        ELSE IF AnyKeyword(c, MotivationalKeywords) THEN Some("Motivational interviewing")
        ELSE IF AnyKeyword(c, VisitKeywords) THEN Some("Visit check in")
        ELSE None

\* the for-loop over the messages' contents; roles names the roles examined
RECURSIVE ContentLoop(_, _, _)
ContentLoop(msgs, i, roles) ==
    IF i > Len(msgs) THEN None
    ELSE LET r == IF msgs[i].role \in roles THEN KeywordMethod(msgs[i].content) ELSE None
         IN  IF r # None THEN r ELSE ContentLoop(msgs, i + 1, roles)

\* a variant that consults the message tags before the session tags
detect_coaching_method_messages_first(s, msgs) ==
    LET m == IF Falsy(msgs) THEN None ELSE MessageTagLoop(msgs[1], 1)
        t == TagLoop(s.tags, 1)
        k == IF Falsy(msgs) THEN None ELSE ContentLoop(msgs[1], 1, {"assistant"})
    IN  IF m # None THEN m[1]
        ELSE IF t # None THEN t[1]
        ELSE IF k # None THEN k[1]
        ELSE "Unknown"

\* a variant whose keyword search reads the user messages too
detect_coaching_method_any_role(s, msgs) ==
    LET t == TagLoop(s.tags, 1)
        m == IF Falsy(msgs) THEN None ELSE MessageTagLoop(msgs[1], 1)
        k == IF Falsy(msgs) THEN None ELSE ContentLoop(msgs[1], 1, {"assistant", "user"})
    IN  IF t # None THEN t[1]
        ELSE IF m # None THEN m[1]
        ELSE IF k # None THEN k[1]
        ELSE "Unknown"

detect_coaching_method(s, msgs) ==
    LET t == TagLoop(s.tags, 1)
        m == IF Falsy(msgs) THEN None ELSE MessageTagLoop(msgs[1], 1)
        k == IF Falsy(msgs) THEN None ELSE ContentLoop(msgs[1], 1, {"assistant"})
    IN  IF t # None THEN t[1]
        ELSE IF m # None THEN m[1]
        ELSE IF k # None THEN k[1]
        ELSE "Unknown"

(***************************************************************************)
(* Version classifier.                                                     *)
(***************************************************************************)
VersionNames ==
    <<"Control bot", "Coaching bot V3", "Coaching bot V4", "Coaching bot V5", "Coaching bot V6">>

\* version_range: None (all versions), or Some of (lo, hi) with hi None when open
Range(lo, hi) == Some([lo |-> lo, hi |-> hi])

\* a variant whose V5 range reaches into the V6 range
coaching_bot_versions_overlapping ==
    ("Control bot" :> [experiment_id |-> <<"1027993a-40c9-4484-a5fb-5c7e034dadcd">>, version_range |-> None]) @@
    ("Coaching bot V3" :> [experiment_id |-> <<"e2b4855f-8550-47ff-87d2-d92018676ff3">>, version_range |-> None]) @@
    ("Coaching bot V4" :> [experiment_id |-> <<"b7621271-da98-459f-9f9b-f68335d09ad4">>, version_range |-> Range(13, None)]) @@
    ("Coaching bot V5" :> [experiment_id |-> <<"5d8be75e-03ff-4e3a-ab6a-e0aff6580986">>, version_range |-> Range(1, Some(5))]) @@
    ("Coaching bot V6" :> [experiment_id |-> <<"5d8be75e-03ff-4e3a-ab6a-e0aff6580986">>, version_range |-> Range(5, None)])

coaching_bot_versions ==
    ("Control bot" :> [experiment_id |-> <<"1027993a-40c9-4484-a5fb-5c7e034dadcd">>, version_range |-> None]) @@
    ("Coaching bot V3" :> [experiment_id |-> <<"e2b4855f-8550-47ff-87d2-d92018676ff3">>, version_range |-> None]) @@
    ("Coaching bot V4" :> [experiment_id |-> <<"b7621271-da98-459f-9f9b-f68335d09ad4">>, version_range |-> Range(13, None)]) @@
    ("Coaching bot V5" :> [experiment_id |-> <<"5d8be75e-03ff-4e3a-ab6a-e0aff6580986">>, version_range |-> Range(1, Some(4))]) @@
    ("Coaching bot V6" :> [experiment_id |-> <<"5d8be75e-03ff-4e3a-ab6a-e0aff6580986">>, version_range |-> Range(5, None)])

\* tag.startswith('v') and tag[1:].isdigit()
IsVersionNumberTag(tag) ==
    StartsWith(Chars[tag], <<"v">>) /\ IsDigit(SubSeq(Chars[tag], 2, Len(Chars[tag])))

\* the for-loop of get_version_from_last_message over one tag list
RECURSIVE VersionTagLoop(_, _)
VersionTagLoop(tags, i) ==
    IF i > Len(tags) THEN 0
    ELSE IF IsVersionNumberTag(tags[i]) THEN IntOf(SubSeq(Chars[tags[i]], 2, Len(Chars[tags[i]])))
    ELSE VersionTagLoop(tags, i + 1)

\* a variant that reads the first message instead of the last
get_version_from_first_message(msgs) ==
    IF Falsy(msgs) THEN 0 ELSE VersionTagLoop(msgs[1][1].tags, 1)

get_version_from_last_message(msgs) ==
    IF Falsy(msgs) THEN 0 ELSE VersionTagLoop(msgs[1][Len(msgs[1])].tags, 1)

\* x in list
InList(x, list) == \E i \in 1..Len(list) : list[i] = x

matches_version(s, version_config, msgs) ==
    IF ~InList(s.experiment, version_config.experiment_id) THEN FALSE
    ELSE LET version_number == IF Falsy(msgs) THEN 0 ELSE get_version_from_last_message(msgs)
             version_range == version_config.version_range
         IN  IF version_range = None THEN TRUE
             ELSE IF version_range[1].hi = None THEN version_number >= version_range[1].lo
             ELSE version_range[1].lo <= version_number /\ version_number <= version_range[1].hi[1]

(***************************************************************************)
(* The copies of the two classifiers kept in find_v6_unknown_sessions.py   *)
(* and investigate_spike.py.                                               *)
(***************************************************************************)
\* a variant of the find_v6_unknown_sessions copy without the message-tag tier
v6_detect_coaching_method_no_message_tags(s, msgs) ==
    LET t == TagLoop(s.tags, 1)
        k == IF Falsy(msgs) THEN None ELSE ContentLoop(msgs[1], 1, {"assistant"})
    IN  IF t # None THEN t[1]
        ELSE IF k # None THEN k[1]
        ELSE "Unknown"

v6_detect_coaching_method(s, msgs) ==
    LET t == TagLoop(s.tags, 1)
        m == IF Falsy(msgs) THEN None ELSE MessageTagLoop(msgs[1], 1)
        k == IF Falsy(msgs) THEN None ELSE ContentLoop(msgs[1], 1, {"assistant"})
    IN  IF t # None THEN t[1]
        ELSE IF m # None THEN m[1]
        ELSE IF k # None THEN k[1]
        ELSE "Unknown"

spike_detect_coaching_method(s, msgs) ==
    LET t == TagLoop(s.tags, 1)
        m == IF Falsy(msgs) THEN None ELSE MessageTagLoop(msgs[1], 1)
        k == IF Falsy(msgs) THEN None ELSE ContentLoop(msgs[1], 1, {"assistant"})
    IN  IF t # None THEN t[1]
        ELSE IF m # None THEN m[1]
        ELSE IF k # None THEN k[1]
        ELSE "Unknown"

v6_get_version_from_last_message(msgs) ==
    IF Falsy(msgs) THEN 0 ELSE VersionTagLoop(msgs[1][Len(msgs[1])].tags, 1)

v6_matches_version(s, version_config, msgs) ==
    IF ~InList(s.experiment, version_config.experiment_id) THEN FALSE
    ELSE LET version_number == IF Falsy(msgs) THEN 0 ELSE v6_get_version_from_last_message(msgs)
             version_range == version_config.version_range
         IN  IF version_range = None THEN TRUE
             ELSE IF version_range[1].hi = None THEN version_number >= version_range[1].lo
             ELSE version_range[1].lo <= version_number /\ version_number <= version_range[1].hi[1]

(***************************************************************************)
(* Regular expressions.  A pattern of the form  a.*b.*c  is the sequence   *)
(* of its pieces; a piece is a sequence of character sets (a literal       *)
(* character is a singleton, [1-5] the set of those digits); '.' matches   *)
(* every character but the newline.                                        *)
(***************************************************************************)
Digits15 == {"1", "2", "3", "4", "5"}

Lit(str) == [i \in 1..Len(Chars[str]) |-> {Chars[str][i]}]

Class15 == <<Digits15>>

NoNewline(s, a, b) == \A i \in a..b : s[i] # "\n"

MatchAt(piece, s, p) ==
    /\ p + Len(piece) - 1 <= Len(s)
    /\ \A j \in 1..Len(piece) : s[p + j - 1] \in piece[j]

RECURSIVE SearchRest(_, _, _, _)
SearchRest(pat, k, s, from) ==
    IF k > Len(pat) THEN TRUE
    ELSE \E p \in from..Len(s) :
            /\ NoNewline(s, from, p - 1)
            /\ MatchAt(pat[k], s, p)
            /\ SearchRest(pat, k + 1, s, p + Len(pat[k]))

\* re.search(pattern, s)
ReSearch(pat, s) ==
    \E p \in 1..Len(s) : MatchAt(pat[1], s, p) /\ SearchRest(pat, 2, s, p + Len(pat[1]))

IsWordChar(c) ==
    c \in DOMAIN LowerOf \/ (\E u \in DOMAIN LowerOf : LowerOf[u] = c)
        \/ c \in DOMAIN DigitValue \/ c = "_"

\* re.match(r'^\s*[1-5]\s*$', s)
MatchSingleDigit(s) ==
    \E i \in 1..Len(s) :
        s[i] \in Digits15 /\ \A j \in (1..Len(s)) \ {i} : s[j] \in Whitespace

\* the positions at which r'\b([1-5])\b' matches
StandaloneDigits(s) ==
    {p \in 1..Len(s) :
        /\ s[p] \in Digits15
        /\ (p = 1 \/ ~IsWordChar(s[p - 1]))
        /\ (p = Len(s) \/ ~IsWordChar(s[p + 1]))}

(***************************************************************************)
(* Rating extractor.                                                       *)
(***************************************************************************)
rating_patterns ==
    << <<Lit("how useful"), Lit("rate"), Class15>>,
       <<Lit("rate"), Lit("useful"), Class15>>,
       <<Lit("rate"), Lit("session"), Class15>>,
       <<Lit("rate"), Lit("coaching"), Class15>>,
       <<Lit("number"), Class15, Lit("rate")>>,
       <<Lit("number"), Class15, Lit("useful")>>,
       <<Class15, Lit("useful")>>,
       <<Class15, Lit("session")>>,
       <<Class15, Lit("coaching")>> >>

written_numbers ==
    ("one" :> 1) @@ ("two" :> 2) @@ ("three" :> 3) @@ ("four" :> 4) @@ ("five" :> 5)

MaxRatingResponseLen == 100

\* the loop over rating_patterns on one assistant message
IsRatingQuestion(content) ==
    \E k \in 1..Len(rating_patterns) : ReSearch(rating_patterns[k], Lower(Chars[content]))

\* the first loop: the search stops at the first assistant message, from the
\* end, that matches; the flag is set exactly when one matches
RatingQuestionFound(msgs) ==
    \E i \in 1..Len(msgs) : msgs[i].role = "assistant" /\ IsRatingQuestion(msgs[i].content)

\* a variant of the loop body that measures the message as it was sent
UserRating_unstripped_length(raw) ==
    LET content == Strip(Chars[raw])
        content_lower == Lower(content)
        hits == StandaloneDigits(content)
    IN  IF MatchSingleDigit(content) /\ Len(Chars[raw]) < MaxRatingResponseLen
        THEN Some(IntOf(Strip(content)))
        ELSE IF \E w \in DOMAIN written_numbers : Chars[w] = content_lower
        THEN Some(written_numbers[CHOOSE w \in DOMAIN written_numbers : Chars[w] = content_lower])
        ELSE IF hits # {} /\ Len(Chars[raw]) < MaxRatingResponseLen
        THEN Some(DigitValue[content[Min(hits)]])
        ELSE None

\* the body of the second loop for one user message: Some(rating) when it
\* returns, None when the loop goes on
UserRating(raw) ==
    LET content == Strip(Chars[raw])
        content_lower == Lower(content)
        hits == StandaloneDigits(content)
    IN  IF MatchSingleDigit(content) THEN Some(IntOf(Strip(content)))
        ELSE IF \E w \in DOMAIN written_numbers : Chars[w] = content_lower
        THEN Some(written_numbers[CHOOSE w \in DOMAIN written_numbers : Chars[w] = content_lower])
        ELSE IF hits # {} /\ Len(content) < MaxRatingResponseLen
        THEN Some(DigitValue[content[Min(hits)]])
        ELSE None

\* the second loop, for message in reversed(messages), from position i down
RECURSIVE ResponseLoop(_, _)
ResponseLoop(msgs, i) ==
    IF i < 1 THEN None
    ELSE LET r == IF msgs[i].role = "user" THEN UserRating(msgs[i].content) ELSE None
         IN  IF r # None THEN r ELSE ResponseLoop(msgs, i - 1)

\* the second loop run forwards, from position i up
RECURSIVE ResponseLoopForward(_, _)
ResponseLoopForward(msgs, i) ==
    IF i > Len(msgs) THEN None
    ELSE LET r == IF msgs[i].role = "user" THEN UserRating(msgs[i].content) ELSE None
         IN  IF r # None THEN r ELSE ResponseLoopForward(msgs, i + 1)

\* a variant that does not require a rating question
extract_session_rating_no_question(s, msgs) ==
    IF Falsy(msgs) THEN None ELSE ResponseLoop(msgs[1], Len(msgs[1]))

\* a variant that returns the earliest qualifying user message
extract_session_rating_earliest(s, msgs) ==
    IF Falsy(msgs) THEN None
    ELSE IF ~RatingQuestionFound(msgs[1]) THEN None
    ELSE ResponseLoopForward(msgs[1], 1)

extract_session_rating(s, msgs) ==
    IF Falsy(msgs) THEN None
    ELSE IF ~RatingQuestionFound(msgs[1]) THEN None
    ELSE ResponseLoop(msgs[1], Len(msgs[1]))

\* a variant of the comprehensive_rating_analysis extractor that reads the user
\* messages from the first on
extract_rating_from_session_forward(s, msgs) ==
    IF Falsy(msgs) THEN None
    ELSE IF ~RatingQuestionFound(msgs[1]) THEN None
    ELSE ResponseLoopForward(msgs[1], 1)

\* comprehensive_rating_analysis.py: the same two loops; int(...) where the
\* dashboard has float(...), the same number
extract_rating_from_session(s, msgs) ==
    IF Falsy(msgs) THEN None
    ELSE IF ~RatingQuestionFound(msgs[1]) THEN None
    ELSE ResponseLoop(msgs[1], Len(msgs[1]))

(***************************************************************************)
(* JSON documents and files.  A JSON value is tagged with its Python type; *)
(* a dict is a function from its keys.  A file has a name and either an    *)
(* error raised by open()/json.load() or the document it parses to.        *)
(***************************************************************************)
JNull == [t |-> "null"]

JStr(s) == [t |-> "str", v |-> s]

JList(l) == [t |-> "list", v |-> l]

JDict(d) == [t |-> "dict", v |-> d]

\* d.get(key, default)
DictGet(d, key, default) == IF key \in DOMAIN d THEN d[key] ELSE default

File(name, doc) == [name |-> name, error |-> None, doc |-> doc]

BadFile(name, exc) == [name |-> name, error |-> Some(exc), doc |-> JNull]

\* the string spelled by a sequence of characters
StrOf(seq) == CHOOSE s \in DOMAIN Chars : Chars[s] = seq

\* Path.stem: the name without its last suffix
Stem(name) ==
    LET dots == {i \in 2..Len(name) : name[i] = "."}
    IN  IF dots = {} THEN name ELSE SubSeq(name, 1, Max(dots) - 1)

\* s.replace(sub, ''): every occurrence of sub removed, left to right
RECURSIVE RemoveAll(_, _)
RemoveAll(s, sub) ==
    IF Len(s) = 0 THEN <<>>
    ELSE IF StartsWith(s, sub) THEN RemoveAll(SubSeq(s, Len(sub) + 1, Len(s)), sub)
    ELSE <<s[1]>> \o RemoveAll(SubSeq(s, 2, Len(s)), sub)

(***************************************************************************)
(* Loaders.  The body of each try block yields either the exception it     *)
(* raises or what it does to the result; the except clause decides whether *)
(* the loop goes on.                                                       *)
(***************************************************************************)
Raise(exc) == [exc |-> Some(exc), keep |-> FALSE]

Done(keep) == [exc |-> None, keep |-> keep]

\* a handler that only expects JSON syntax errors
CaughtDecodeErrorsOnly(exc) == exc = "JSONDecodeError"

\* except Exception: every exception the try bodies raise is an Exception
Caught(exc) == exc \in {"OSError", "JSONDecodeError", "AttributeError", "TypeError"}

relevant_experiment_ids ==
    UNION {{coaching_bot_versions[n].experiment_id[k] :
               k \in 1..Len(coaching_bot_versions[n].experiment_id)} :
           n \in DOMAIN coaching_bot_versions}

\* the try body of load_sessions_from_files for one file
SessionTry(file) ==
    IF file.error # None THEN Raise(file.error[1])
    ELSE IF file.doc.t # "dict" THEN Raise("AttributeError")
    ELSE LET participant == DictGet(file.doc.v, "participant", JDict(<<>>))
         IN  IF participant.t # "dict" THEN Raise("AttributeError")
             ELSE LET participant_id == DictGet(participant.v, "identifier", JStr(""))
                  IN  IF participant_id.t # "str" THEN Raise("AttributeError")
                      ELSE IF EndsWith(Chars[participant_id.v], Chars["@dimagi.com"])
                      THEN Done(FALSE)
                      ELSE LET experiment == DictGet(file.doc.v, "experiment", JDict(<<>>))
                           IN  IF experiment.t # "dict" THEN Raise("AttributeError")
                               ELSE LET experiment_id == DictGet(experiment.v, "id", JStr(""))
                                    IN  IF experiment_id.t \in {"list", "dict"}
                                        THEN Raise("TypeError")
                                        ELSE Done(experiment_id.t = "str"
                                                  /\ experiment_id.v \in relevant_experiment_ids)

\* the try body of comprehensive_rating_analysis's session loop
ComprehensiveSessionTry(file) ==
    IF file.error # None THEN Raise(file.error[1]) ELSE Done(TRUE)

\* for session_file in session_files: try ... except Exception: continue
\* (script names the loader whose try body runs; the result tells whether an
\* exception left the loop and what was collected)
RECURSIVE SessionLoop(_, _, _, _)
SessionLoop(files, i, acc, script) ==
    IF i > Len(files) THEN [raised |-> FALSE, value |-> acc]
    ELSE LET o == IF script = "dashboard" THEN SessionTry(files[i])
                  ELSE ComprehensiveSessionTry(files[i])
         IN  IF o.exc # None
             THEN IF Caught(o.exc[1]) THEN SessionLoop(files, i + 1, acc, script)
                  ELSE [raised |-> TRUE, value |-> acc]
             ELSE SessionLoop(files, i + 1,
                              IF o.keep THEN Append(acc, files[i].doc) ELSE acc, script)

load_sessions_from_files(files) == SessionLoop(files, 1, <<>>, "dashboard")

comprehensive_load_sessions(files) == SessionLoop(files, 1, <<>>, "comprehensive")

\* message_file.stem.replace('messages_', '')
SessionIdOfFile(file) == StrOf(RemoveAll(Stem(Chars[file.name]), Chars["messages_"]))

\* 'messages' in message_data, then message_data['messages']
MessagesOf(doc) ==
    CASE doc.t = "dict" ->
            IF "messages" \in DOMAIN doc.v
            THEN [exc |-> None, keep |-> TRUE, value |-> doc.v["messages"]]
            ELSE [exc |-> None, keep |-> FALSE, value |-> JNull]
      [] doc.t = "list" ->
            IF InList(JStr("messages"), doc.v)
            THEN [exc |-> Some("TypeError"), keep |-> FALSE, value |-> JNull]
            ELSE [exc |-> None, keep |-> FALSE, value |-> JNull]
      [] doc.t = "str" ->
            IF Contains(Chars[doc.v], <<"m", "e", "s", "s", "a", "g", "e", "s">>)
            THEN [exc |-> Some("TypeError"), keep |-> FALSE, value |-> JNull]
            ELSE [exc |-> None, keep |-> FALSE, value |-> JNull]
      [] OTHER -> [exc |-> Some("TypeError"), keep |-> FALSE, value |-> JNull]

\* the try body of load_messages_from_files for one file: a file whose id was
\* not requested is not opened
MessageTry(file, session_ids_set) ==
    IF SessionIdOfFile(file) \notin session_ids_set
    THEN [exc |-> None, keep |-> FALSE, value |-> JNull]
    ELSE IF file.error # None THEN [exc |-> file.error, keep |-> FALSE, value |-> JNull]
    ELSE MessagesOf(file.doc)

\* the try body of comprehensive_rating_analysis's message loop:
\* session_data.get('messages', []) under the file's id
ComprehensiveMessageTry(file) ==
    IF file.error # None THEN [exc |-> file.error, keep |-> FALSE, value |-> JNull]
    ELSE IF file.doc.t # "dict" THEN [exc |-> Some("AttributeError"), keep |-> FALSE, value |-> JNull]
    ELSE [exc |-> None, keep |-> TRUE, value |-> DictGet(file.doc.v, "messages", JList(<<>>))]

\* d[key] = value
DictSet(d, key, value) == (key :> value) @@ d

\* for message_file in message_files: try ... except Exception: continue
RECURSIVE MessageLoop(_, _, _, _, _)
MessageLoop(files, i, acc, session_ids_set, script) ==
    IF i > Len(files) THEN [raised |-> FALSE, value |-> acc]
    ELSE LET o == IF script = "dashboard" THEN MessageTry(files[i], session_ids_set)
                  ELSE ComprehensiveMessageTry(files[i])
         IN  IF o.exc # None
             THEN IF Caught(o.exc[1])
                  THEN MessageLoop(files, i + 1, acc, session_ids_set, script)
                  ELSE [raised |-> TRUE, value |-> acc]
             ELSE MessageLoop(files, i + 1,
                              IF o.keep THEN DictSet(acc, SessionIdOfFile(files[i]), o.value)
                              ELSE acc,
                              session_ids_set, script)

load_messages_from_files(files, session_ids) ==
    MessageLoop(files, 1, <<>>, {session_ids[k] : k \in 1..Len(session_ids)}, "dashboard")

comprehensive_load_messages(files) == MessageLoop(files, 1, <<>>, {}, "comprehensive")

\* [session.get('id') for session in sessions if session.get('id')]
SessionIdsOf(docs) ==
    LET ids == [k \in 1..Len(docs) |-> DictGet(docs[k].v, "id", JNull)]
        named == SelectSeq(ids, LAMBDA x : x.t = "str" /\ x.v # "")
    IN  [k \in 1..Len(named) |-> named[k].v]

(***************************************************************************)
(* Inputs.  A message is a record with the keys the scripts read (a        *)
(* missing 'content' reads as '' and missing 'tags' as the empty list); a  *)
(* session carries its id, participant identifier, experiment id, tags     *)
(* and creation time.                                                      *)
(***************************************************************************)
Msg(role, content, tags) == [role |-> role, content |-> content, tags |-> tags]

Session(id, participant, experiment, tags, created_at) ==
    [id |-> id, participant |-> participant, experiment |-> experiment,
     tags |-> tags, created_at |-> created_at]

\* nothing loaded
NoFiles ==
    /\ loader = "none"
    /\ session_files = <<>>
    /\ filter_participant_ids = {}
    /\ message_files = <<>>
    /\ sessions = <<>>
    /\ messages_data = <<>>

ListsUpTo(S, n) == UNION {[1..k -> S] : k \in 0..n}

UserCount(msgs) == Cardinality({i \in 1..Len(msgs) : msgs[i].role = "user"})

PlainSession == Session("s1", "chw_01", "e2b4855f", <<>>, 1)

(***************************************************************************)
(* SpecSplit: the three is_split_session functions applied to every        *)
(* message list of up to MaxSplitMsgs messages, and to None.               *)
(***************************************************************************)
MaxSplitMsgs == 4

SplitRoles == {"user", "assistant", "system"}

SplitInputs ==
    {None} \cup {Some(m) : m \in ListsUpTo({Msg(r, "", <<>>) : r \in SplitRoles}, MaxSplitMsgs)}

InitSplit ==
    /\ session = PlainSession
    /\ messages \in SplitInputs
    /\ op = "input"
    /\ result = None
    /\ NoFiles

CallDashboardSplit ==
    /\ op = "input"
    /\ op' = "dashboard.is_split_session"
    /\ result' = is_split_session(session, messages)
    /\ UNCHANGED <<session, messages, loadVars>>

CallSpikeSplit ==
    /\ op = "input"
    /\ op' = "investigate_spike.is_split_session"
    /\ result' = spike_is_split_session(session, messages)
    /\ UNCHANGED <<session, messages, loadVars>>

CallGsSplit ==
    /\ op = "input"
    /\ op' = "analyze_gs_scores_refrigerator.is_split_session"
    /\ result' = gs_is_split_session(session, messages)
    /\ UNCHANGED <<session, messages, loadVars>>

NextSplit == CallDashboardSplit \/ CallSpikeSplit \/ CallGsSplit

SpecSplit == InitSplit /\ [][NextSplit]_vars

SplitOps ==
    {"dashboard.is_split_session", "investigate_spike.is_split_session",
     "analyze_gs_scores_refrigerator.is_split_session"}

\* C2 (as stated): given a message list, each of the three is_split_session
\* functions returns True exactly when the list holds zero user-role messages.
C2_AllAgreeWithGlossary ==
    (op \in SplitOps /\ messages # None) => (result = (UserCount(messages[1]) = 0))

\* C2 (amended): given a message list, the dashboard's and investigate_spike's
\* is_split_session return True exactly when the list holds zero user-role
\* messages, while analyze_gs_scores_refrigerator.is_split_session returns True
\* exactly when the list holds fewer than three user-role messages.
C2_SplitDefinitions ==
    messages # None =>
        /\ op \in {"dashboard.is_split_session", "investigate_spike.is_split_session"}
              => (result = (UserCount(messages[1]) = 0))
        /\ op = "analyze_gs_scores_refrigerator.is_split_session"
              => (result = (UserCount(messages[1]) <= 2))

\* a list with one or two user messages, which only the GS script calls split
C2_Witness ==
    /\ op = "analyze_gs_scores_refrigerator.is_split_session"
    /\ messages # None
    /\ UserCount(messages[1]) \in {1, 2}
    /\ result = TRUE

(***************************************************************************)
(* SpecMethod: detect_coaching_method applied to sessions with every tag   *)
(* list of MethodSessionTags and every list of up to MaxMethodMsgs of the  *)
(* MethodMessages (and None).                                              *)
(***************************************************************************)
MaxMethodMsgs == 2

MethodSessionTags ==
    {<<>>, <<"v5", "follow_up">>, <<"follow_up", "coach_method_microlearning_vaccine">>,
     <<"coach_method_visit_debrief", "coach_method_scenarios">>}

MethodMessages ==
    {Msg("assistant", "Hello, how are you?", <<>>),
     Msg("assistant", "Let us try a Roleplay today", <<"v5">>),
     Msg("assistant", "A quiz and then a roleplay", <<>>),
     Msg("assistant", "Time for a short quiz", <<"coach_method_motivational_interviewing">>),
     Msg("assistant", "Tell me about your most recent visit", <<>>),
     Msg("assistant", "We will use motivational interviewing", <<>>),
     Msg("user", "I want a roleplay", <<>>),
     Msg("user", "Hello, how are you?", <<"v5", "coach_method_scenarios", "coach_method_microlearning">>),
     Msg("system", "Time for a short quiz", <<"refrigerator_example">>)}

MethodInputs == {None} \cup {Some(m) : m \in ListsUpTo(MethodMessages, MaxMethodMsgs)}

InitMethod ==
    /\ session \in {Session("s1", "chw_01", "e2b4855f", tg, 1) : tg \in MethodSessionTags}
    /\ messages \in MethodInputs
    /\ op = "input"
    /\ result = None
    /\ NoFiles

CallDetectCoachingMethod ==
    /\ op = "input"
    /\ op' = "dashboard.detect_coaching_method"
    /\ result' = detect_coaching_method(session, messages)
    /\ UNCHANGED <<session, messages, loadVars>>

NextMethod == CallDetectCoachingMethod

SpecMethod == InitMethod /\ [][NextMethod]_vars

MessageList == IF messages = None THEN <<>> ELSE messages[1]

\* positions of the recognized coach_method_* tags of the session
SessionMethodTags == {i \in 1..Len(session.tags) : session.tags[i] \in DOMAIN TagMethods}

\* positions <<message, tag>> of the recognized coach_method_* tags of the messages
MessageMethodTags ==
    UNION {{<<i, j>> : j \in {k \in 1..Len(MessageList[i].tags) :
                                 MessageList[i].tags[k] \in DOMAIN TagMethods}} :
           i \in 1..Len(MessageList)}

FirstMessageMethodTag ==
    CHOOSE p \in MessageMethodTags :
        \A q \in MessageMethodTags : p[1] < q[1] \/ (p[1] = q[1] /\ p[2] <= q[2])

AllKeywords ==
    ScenarioKeywords \cup MicrolearningKeywords \cup MotivationalKeywords \cup VisitKeywords

\* some assistant message contains a method keyword, letter case ignored
AssistantKeywordPresent ==
    \E i \in 1..Len(MessageList) :
        /\ MessageList[i].role = "assistant"
        /\ \E k \in AllKeywords : Contains(Lower(Chars[MessageList[i].content]), Chars[k])

\* C3: a recognized session tag decides the method (the first one in the
\* session's tag list), whatever the messages hold; failing that, the first
\* recognized message tag (message order, then tag order) decides it, whatever
\* the contents say; the keyword search is used only when neither exists.
C3_TierPrecedence ==
    op = "dashboard.detect_coaching_method" =>
        IF SessionMethodTags # {}
        THEN result = TagMethods[session.tags[Min(SessionMethodTags)]]
        ELSE IF MessageMethodTags # {}
        THEN result = TagMethods[MessageList[FirstMessageMethodTag[1]].tags[FirstMessageMethodTag[2]]]
        ELSE result = IF ContentLoop(MessageList, 1, {"assistant"}) = None THEN "Unknown"
                      ELSE ContentLoop(MessageList, 1, {"assistant"})[1]

\* all three tiers have a candidate, each naming another method, and the
\* session tag decides
C3_Witness ==
    /\ op = "dashboard.detect_coaching_method"
    /\ SessionMethodTags # {}
    /\ MessageMethodTags # {}
    /\ AssistantKeywordPresent
    /\ result = TagMethods[session.tags[Min(SessionMethodTags)]]
    /\ MessageTagLoop(MessageList, 1) # Some(result)
    /\ ContentLoop(MessageList, 1, {"assistant"}) # Some(result)
    /\ ContentLoop(MessageList, 1, {"assistant"}) # MessageTagLoop(MessageList, 1)

Methods ==
    {"Scenario", "Microlearning", "Microlearning vaccines", "Motivational interviewing",
     "Visit check in", "Unknown"}

\* C4: detect_coaching_method returns one of the six fixed values, and returns
\* Unknown exactly when neither the session nor any message carries a
\* recognized tag and no assistant message contains a method keyword.
C4_FixedSetAndUnknown ==
    op = "dashboard.detect_coaching_method" =>
        /\ result \in Methods
        /\ (result = "Unknown") <=>
               (SessionMethodTags = {} /\ MessageMethodTags = {} /\ ~AssistantKeywordPresent)

\* Unknown although a user message holds a keyword: only assistant messages count
C4_Witness ==
    /\ op = "dashboard.detect_coaching_method"
    /\ result = "Unknown"
    /\ \E i \in 1..Len(MessageList) :
           MessageList[i].role = "user" /\ KeywordMethod(MessageList[i].content) # None

\* the assistant messages holding a method keyword, letter case ignored
KeywordMessages ==
    {i \in 1..Len(MessageList) :
        /\ MessageList[i].role = "assistant"
        /\ \E k \in AllKeywords : Contains(Lower(Chars[MessageList[i].content]), Chars[k])}

\* the methods of the keyword tier, in the order in which they are tried
KeywordTierOrder ==
    <<[method |-> "Scenario", keywords |-> ScenarioKeywords],
      [method |-> "Microlearning", keywords |-> MicrolearningKeywords],
      [method |-> "Motivational interviewing", keywords |-> MotivationalKeywords],
      [method |-> "Visit check in", keywords |-> VisitKeywords]>>

\* the places of KeywordTierOrder of which message i holds a keyword
MethodsNamedIn(i) ==
    {n \in 1..Len(KeywordTierOrder) :
        \E k \in KeywordTierOrder[n].keywords :
            Contains(Lower(Chars[MessageList[i].content]), Chars[k])}

VaccineTagPresent ==
    \/ \E i \in 1..Len(session.tags) : session.tags[i] = "coach_method_microlearning_vaccine"
    \/ \E i \in 1..Len(MessageList) : \E j \in 1..Len(MessageList[i].tags) :
           MessageList[i].tags[j] = "coach_method_microlearning_vaccine"

\* C22: when no tag decides, the first assistant message (conversation
\* order) that contains a method keyword decides the result, and within it
\* the order Scenario, Microlearning, Motivational interviewing, Visit check
\* in applies; user messages are not examined; Microlearning vaccines is
\* returned only when a coach_method_microlearning_vaccine tag is present.
C22_KeywordTier ==
    op = "dashboard.detect_coaching_method" =>
        /\ (SessionMethodTags = {} /\ MessageMethodTags = {}) =>
               IF KeywordMessages = {} THEN result = "Unknown"
               ELSE result = KeywordTierOrder[Min(MethodsNamedIn(Min(KeywordMessages)))].method
        /\ result = "Microlearning vaccines" => VaccineTagPresent

\* the first assistant message names Microlearning and Scenario, the second
\* another method: the first message decides, and Scenario comes first
C22_Witness ==
    /\ op = "dashboard.detect_coaching_method"
    /\ SessionMethodTags = {}
    /\ MessageMethodTags = {}
    /\ KeywordMessages = {1, 2}
    /\ MethodsNamedIn(1) = {1, 2}
    /\ MethodsNamedIn(2) = {3}
    /\ result = "Scenario"

\* a user message with a keyword comes before the assistant message that decides
C22_UserWitness ==
    /\ op = "dashboard.detect_coaching_method"
    /\ SessionMethodTags = {}
    /\ MessageMethodTags = {}
    /\ Len(MessageList) = 2
    /\ MessageList[1].role = "user"
    /\ MethodsNamedIn(1) = {1}
    /\ KeywordMessages = {2}
    /\ result = "Visit check in"

(***************************************************************************)
(* SpecVersion: matches_version for each of the five configurations, and   *)
(* the per-version session filter of generate_dashboard, applied to        *)
(* sessions of every experiment and every list of up to MaxVersionMsgs of  *)
(* the VersionMessages (and None).                                         *)
(***************************************************************************)
MaxVersionMsgs == 2

VersionExperiments ==
    {"1027993a-40c9-4484-a5fb-5c7e034dadcd", "e2b4855f-8550-47ff-87d2-d92018676ff3",
     "b7621271-da98-459f-9f9b-f68335d09ad4", "5d8be75e-03ff-4e3a-ab6a-e0aff6580986",
     "00000000-0000-0000-0000-000000000000"}

VersionMessages ==
    {Msg("assistant", "", tg) :
        tg \in {<<>>, <<"v4">>, <<"v5">>, <<"v13">>, <<"follow_up", "v12", "v1">>,
                <<"V5">>, <<"vx", "v">>, <<"v5_unreleased", "v1">>}}

VersionInputs == {None} \cup {Some(m) : m \in ListsUpTo(VersionMessages, MaxVersionMsgs)}

InitVersion ==
    /\ session \in {Session("s1", "chw_01", e, tg, 1) :
                        e \in VersionExperiments, tg \in {<<>>, <<"v13">>}}
    /\ messages \in VersionInputs
    /\ op = "input"
    /\ result = None
    /\ NoFiles

CallMatchesVersion ==
    /\ op = "input"
    /\ \E n \in DOMAIN coaching_bot_versions :
           /\ op' = "matches_version"
           /\ result' = [version_name |-> n,
                         value |-> matches_version(session, coaching_bot_versions[n], messages)]
    /\ UNCHANGED <<session, messages, loadVars>>

\* the rows of the summary table in which generate_dashboard counts the session:
\* the version names, in configuration order, whose filter keeps it
VersionRows(s, msgs) ==
    SelectSeq(VersionNames, LAMBDA n : matches_version(s, coaching_bot_versions[n], msgs))

CallVersionRows ==
    /\ op = "input"
    /\ messages # None
    /\ op' = "generate_dashboard.version_sessions"
    /\ result' = VersionRows(session, messages)
    /\ UNCHANGED <<session, messages, loadVars>>

NextVersion == CallMatchesVersion \/ CallVersionRows

SpecVersion == InitVersion /\ [][NextVersion]_vars

\* the number each tag of the inputs spells, for the tags of the form v<digits>
VersionTagNumber == ("v1" :> 1) @@ ("v4" :> 4) @@ ("v5" :> 5) @@ ("v12" :> 12) @@ ("v13" :> 13)

LastMessageTags == IF MessageList = <<>> THEN <<>> ELSE MessageList[Len(MessageList)].tags

\* the version number the claim describes: N of the first tag v<N> of the last
\* message, 0 without messages or without such a tag
ClaimedVersionNumber ==
    LET at == {i \in 1..Len(LastMessageTags) : LastMessageTags[i] \in DOMAIN VersionTagNumber}
    IN  IF at = {} THEN 0 ELSE VersionTagNumber[LastMessageTags[Min(at)]]

\* C5: matches_version is a function of the experiment id and of the tags of the
\* last message alone: False for an experiment id outside the configuration,
\* otherwise True for an unrestricted configuration, version >= min for an open
\* range and min <= version <= max for a closed one, the version being that of
\* the first v<digits> tag of the last message (0 without one).  The session's
\* tags and the tags of the earlier messages do not enter.
C5_MatchesVersionRule ==
    op = "matches_version" =>
        LET cfg == coaching_bot_versions[result.version_name]
            v == ClaimedVersionNumber
        IN  result.value =
               CASE session.experiment # cfg.experiment_id[1] -> FALSE
                 [] result.version_name \in {"Control bot", "Coaching bot V3"} -> TRUE
                 [] result.version_name = "Coaching bot V4" -> v >= 13
                 [] result.version_name = "Coaching bot V5" -> 1 <= v /\ v <= 4
                 [] result.version_name = "Coaching bot V6" -> v >= 5

\* an earlier message and the session carry v13, the last message says v4:
\* the session is a V5 session
C5_Witness ==
    /\ op = "matches_version"
    /\ result = [version_name |-> "Coaching bot V5", value |-> TRUE]
    /\ session.tags = <<"v13">>
    /\ Len(MessageList) = 2
    /\ MessageList[1].tags = <<"v13">>
    /\ MessageList[2].tags = <<"v4">>

\* C6: the five configurations are mutually exclusive: a session is kept by the
\* filter of at most one of them, so it is counted in at most one row.
C6_VersionsExclusive ==
    op = "generate_dashboard.version_sessions" => Len(result) <= 1

\* a session of the experiment shared by V5 and V6, at version 5, is a V6
\* session only
C6_Witness ==
    /\ op = "generate_dashboard.version_sessions"
    /\ session.experiment = "5d8be75e-03ff-4e3a-ab6a-e0aff6580986"
    /\ ClaimedVersionNumber = 5
    /\ result = <<"Coaching bot V6">>

(***************************************************************************)
(* SpecRating: the two rating extractors applied to every list of up to    *)
(* MaxRatingMsgs of the RatingMessages (and None).                         *)
(***************************************************************************)
MaxRatingMsgs == 3

RatingMessages ==
    {Msg("assistant", c, <<>>) :
        c \in {"How useful was this session? Please rate it from 1 to 5",
               "Thanks for chatting, goodbye",
               "Please rate our chat\nfrom 1 to 5"}}
    \cup
    {Msg("user", c, <<>>) :
        c \in {"5", " 3 ", "Four", "6", "I would say 4 out of 5", "It was great",
               "Here are 3 coaching tips",
               "My answer is 2 because the examples were clear and the advice was practical, and I will use it on my next home visit"}}

RatingInputs == {None} \cup {Some(m) : m \in ListsUpTo(RatingMessages, MaxRatingMsgs)}

InitRating ==
    /\ session = PlainSession
    /\ messages \in RatingInputs
    /\ op = "input"
    /\ result = None
    /\ NoFiles

CallExtractSessionRating ==
    /\ op = "input"
    /\ op' = "dashboard.extract_session_rating"
    /\ result' = extract_session_rating(session, messages)
    /\ UNCHANGED <<session, messages, loadVars>>

CallExtractRatingFromSession ==
    /\ op = "input"
    /\ op' = "comprehensive_rating_analysis.extract_rating_from_session"
    /\ result' = extract_rating_from_session(session, messages)
    /\ UNCHANGED <<session, messages, loadVars>>

NextRating == CallExtractSessionRating \/ CallExtractRatingFromSession

SpecRating == InitRating /\ [][NextRating]_vars

\* the contents of the inputs that Python's re finds to match a rating-question
\* pattern once lowered
RatingQuestionContents ==
    {"How useful was this session? Please rate it from 1 to 5", "Here are 3 coaching tips"}

\* the rating Python's extractor reads off each qualifying content of the inputs
QualifyingResponses ==
    ("5" :> 5) @@ (" 3 " :> 3) @@ ("Four" :> 4) @@ ("I would say 4 out of 5" :> 4) @@
    ("Here are 3 coaching tips" :> 3) @@
    ("How useful was this session? Please rate it from 1 to 5" :> 1) @@
    ("Please rate our chat\nfrom 1 to 5" :> 1)

AssistantAsksRating ==
    \E i \in 1..Len(MessageList) :
        MessageList[i].role = "assistant" /\ MessageList[i].content \in RatingQuestionContents

QualifyingUserMessages ==
    {i \in 1..Len(MessageList) :
        MessageList[i].role = "user" /\ MessageList[i].content \in DOMAIN QualifyingResponses}

\* C7: extract_session_rating returns None whenever the message list is empty
\* or no assistant message matches a rating-question pattern, whatever the user
\* messages contain; and every result other than None is one of 1, 2, 3, 4, 5.
C7_NoQuestionNoRating ==
    op = "dashboard.extract_session_rating" =>
        /\ (MessageList = <<>> \/ ~AssistantAsksRating) => result = None
        /\ result # None => result[1] \in 1..5

\* a user message that is a rating, and even a user message that reads like a
\* rating question, but no assistant message asking: no rating
C7_Witness ==
    /\ op = "dashboard.extract_session_rating"
    /\ result = None
    /\ QualifyingUserMessages # {}
    /\ \E i \in 1..Len(MessageList) :
           MessageList[i].role = "user" /\ MessageList[i].content \in RatingQuestionContents
    /\ \E i \in 1..Len(MessageList) : MessageList[i].role = "assistant"

\* C8: once a rating question was found, the result is the rating of the latest
\* user message that qualifies, non-qualifying user messages being skipped, and
\* None when none qualifies; where that message stands relative to the question
\* plays no part.  Both extractors scan this way.
C8_LatestQualifyingResponse ==
    (op \in {"dashboard.extract_session_rating",
             "comprehensive_rating_analysis.extract_rating_from_session"}
        /\ AssistantAsksRating) =>
        IF QualifyingUserMessages = {} THEN result = None
        ELSE result = Some(QualifyingResponses[MessageList[Max(QualifyingUserMessages)].content])

\* a rating given before the question is returned when the only later user
\* message does not qualify
C8_Witness ==
    /\ op = "dashboard.extract_session_rating"
    /\ Len(MessageList) = 3
    /\ MessageList[1] = Msg("user", "5", <<>>)
    /\ MessageList[2].role = "assistant" /\ MessageList[2].content \in RatingQuestionContents
    /\ MessageList[3] = Msg("user", "It was great", <<>>)
    /\ result = Some(5)

\* C12: the two rating extractors are the same heuristic: on every session and
\* message list extract_rating_from_session of comprehensive_rating_analysis
\* returns None exactly when the dashboard's extract_session_rating returns
\* None, and otherwise both return the same number.
C12_ExtractorsAgree ==
    /\ op = "comprehensive_rating_analysis.extract_rating_from_session" =>
        /\ result = None <=> extract_session_rating(session, messages) = None
        /\ result # None => result[1] = extract_session_rating(session, messages)[1]
    /\ op = "dashboard.extract_session_rating" =>
        /\ result = None <=> extract_rating_from_session(session, messages) = None
        /\ result # None => result[1] = extract_rating_from_session(session, messages)[1]

\* two user messages that qualify with different ratings after a rating
\* question: the comprehensive_rating_analysis extractor returns the later one
C12_Witness ==
    /\ op = "comprehensive_rating_analysis.extract_rating_from_session"
    /\ Len(MessageList) = 3
    /\ MessageList[1].role = "assistant" /\ MessageList[1].content \in RatingQuestionContents
    /\ MessageList[2] = Msg("user", "5", <<>>)
    /\ MessageList[3] = Msg("user", "Four", <<>>)
    /\ result = Some(4)

(***************************************************************************)
(* SpecLoad: the dashboard's loaders, as generate_dashboard calls them,    *)
(* and the two loops of comprehensive_rating_analysis's loader, on every   *)
(* directory of up to MaxSessionFiles session files and MaxMessageFiles    *)
(* message files.                                                          *)
(***************************************************************************)
MaxSessionFiles == 2

MaxMessageFiles == 2

SessionDoc(id, participant, experiment) ==
    JDict([id |-> JStr(id), participant |-> participant, experiment |-> experiment])

Participant(identifier) == JDict([identifier |-> JStr(identifier)])

Experiment(id) == JDict([id |-> JStr(id)])

\* a relevant session of a field participant
GoodSession ==
    SessionDoc("s1", Participant("chw_01"), Experiment("e2b4855f-8550-47ff-87d2-d92018676ff3"))

\* a relevant session without a participant key
AnonymousSession ==
    JDict([id |-> JStr("s2"), experiment |-> Experiment("5d8be75e-03ff-4e3a-ab6a-e0aff6580986")])

\* a relevant session of a staff account
StaffSession ==
    SessionDoc("s3", Participant("tester@dimagi.com"), Experiment("e2b4855f-8550-47ff-87d2-d92018676ff3"))

\* a session of another experiment
OtherExperimentSession ==
    SessionDoc("s4", Participant("chw_02"), Experiment("00000000-0000-0000-0000-000000000000"))

\* a record with neither participant nor experiment
BareSession == JDict([id |-> JStr("s4")])

\* a record whose participant is null
NullParticipantSession ==
    SessionDoc("s1", JNull, Experiment("e2b4855f-8550-47ff-87d2-d92018676ff3"))

SessionFiles ==
    {File("session.json", d) :
        d \in {GoodSession, AnonymousSession, StaffSession, OtherExperimentSession,
               BareSession, NullParticipantSession, JList(<<>>)}}
    \cup {BadFile("session.json", "JSONDecodeError")}

ComprehensiveSessionFiles ==
    {File("session.json", d) : d \in {GoodSession, StaffSession, JList(<<>>)}}
    \cup {BadFile("session.json", "JSONDecodeError")}

MessageFileNames == {"messages_s1.json", "messages_s2.json", "messages_messages_s1.json"}

MessageFiles ==
    {File(n, d) : n \in MessageFileNames,
                  d \in {JDict([messages |-> JList(<<Msg("user", "5", <<>>)>>)]),
                         JDict([session_id |-> JStr("s1")]),
                         JNull}}
    \cup {BadFile(n, "JSONDecodeError") : n \in MessageFileNames}

\* the listings of a directory: its files have distinct names
MessageDirs ==
    {d \in ListsUpTo(MessageFiles, MaxMessageFiles) :
        \A i, j \in 1..Len(d) : i # j => d[i].name # d[j].name}

InitLoad ==
    /\ session = PlainSession
    /\ messages = None
    /\ op = "start"
    /\ result = None
    /\ loader \in {"dashboard", "comprehensive"}
    /\ session_files = <<>>
    /\ filter_participant_ids = {}
    /\ message_files = <<>>
    /\ sessions = <<>>
    /\ messages_data = <<>>

Outcome(r) == IF r.raised THEN "raised" ELSE "returned"

DashboardLoadSessions ==
    /\ op = "start"
    /\ loader = "dashboard"
    /\ \E files \in ListsUpTo(SessionFiles, MaxSessionFiles) :
           /\ session_files' = files
           /\ sessions' = load_sessions_from_files(files).value
           /\ result' = Outcome(load_sessions_from_files(files))
    /\ op' = "load_sessions_from_files"
    /\ UNCHANGED <<session, messages, loader, filter_participant_ids, message_files, messages_data>>

\* generate_dashboard stops when no session was loaded; session_files is a
\* local of the loader that has returned
DashboardLoadMessages ==
    /\ op = "load_sessions_from_files"
    /\ loader = "dashboard"
    /\ result = "returned"
    /\ sessions # <<>>
    /\ \E files \in MessageDirs :
           /\ message_files' = files
           /\ messages_data' = load_messages_from_files(files, SessionIdsOf(sessions)).value
           /\ result' = Outcome(load_messages_from_files(files, SessionIdsOf(sessions)))
    /\ session_files' = <<>>
    /\ op' = "load_messages_from_files"
    /\ UNCHANGED <<session, messages, loader, filter_participant_ids, sessions>>

ComprehensiveLoadSessions ==
    /\ op = "start"
    /\ loader = "comprehensive"
    /\ \E files \in ListsUpTo(ComprehensiveSessionFiles, MaxSessionFiles) :
           /\ session_files' = files
           /\ sessions' = comprehensive_load_sessions(files).value
           /\ result' = Outcome(comprehensive_load_sessions(files))
    /\ op' = "load_sessions_and_messages.sessions"
    /\ UNCHANGED <<session, messages, loader, filter_participant_ids, message_files, messages_data>>

ComprehensiveLoadMessages ==
    /\ op = "load_sessions_and_messages.sessions"
    /\ loader = "comprehensive"
    /\ result = "returned"
    /\ \E files \in MessageDirs :
           /\ message_files' = files
           /\ messages_data' = comprehensive_load_messages(files).value
           /\ result' = Outcome(comprehensive_load_messages(files))
    /\ session_files' = <<>>
    /\ op' = "load_sessions_and_messages.messages"
    /\ UNCHANGED <<session, messages, loader, filter_participant_ids, sessions>>

NextLoad ==
    \/ DashboardLoadSessions
    \/ DashboardLoadMessages
    \/ ComprehensiveLoadSessions
    \/ ComprehensiveLoadMessages

SpecLoad == InitLoad /\ [][NextLoad]_vars

DocsOf(files) == [k \in 1..Len(files) |-> files[k].doc]

\* what the running loader's try body does with a session file
SessionTryOf(file) ==
    IF loader = "dashboard" THEN SessionTry(file) ELSE ComprehensiveSessionTry(file)

\* what the running loader's try body does with a message file
MessageTryOf(file) ==
    IF loader = "dashboard" THEN MessageTry(file, {SessionIdsOf(sessions)[k] : k \in 1..Len(SessionIdsOf(sessions))})
    ELSE ComprehensiveMessageTry(file)

\* the message files whose try body ran through and stored a list
StoredMessageFiles ==
    {i \in 1..Len(message_files) :
        MessageTryOf(message_files[i]).exc = None /\ MessageTryOf(message_files[i]).keep}

SessionLoaderOps == {"load_sessions_from_files", "load_sessions_and_messages.sessions"}

MessageLoaderOps == {"load_messages_from_files", "load_sessions_and_messages.messages"}

ExpectedSessions == {GoodSession, AnonymousSession}

\* the name messages_<id>.json
MessageFileName(id) == Chars["messages_"] \o Chars[id] \o Chars[".json"]

C10_SessionsPart ==
    op = "load_sessions_from_files" =>
        sessions = DocsOf(SelectSeq(session_files,
                       LAMBDA f : f.error = None /\ f.doc \in ExpectedSessions))

C10_MessagesPart ==
    op = "load_messages_from_files" =>
        /\ DOMAIN messages_data \subseteq {sessions[k].v.id.v : k \in 1..Len(sessions)}
        /\ \A id \in DOMAIN messages_data :
               \E i \in 1..Len(message_files) :
                    /\ Chars[message_files[i].name] = MessageFileName(id)
                    /\ message_files[i].error = None
                    /\ message_files[i].doc.t = "dict"
                    /\ "messages" \in DOMAIN message_files[i].doc.v
                    /\ messages_data[id] = message_files[i].doc.v.messages

\* C10: load_sessions_from_files returns exactly the well-formed session
\* records of a configured experiment whose participant identifier does not end
\* with '@dimagi.com'; load_messages_from_files returns a map whose keys are
\* requested session ids, each key being the <id> of a file named
\* messages_<id>.json and mapped to that file's 'messages' list.
C10_LoaderResults == C10_SessionsPart /\ C10_MessagesPart

(***************************************************************************)
(* Dashboard aggregations (version_comparison_simple.py).  A number the    *)
(* code obtains by division, a median or a mean is kept as the exact       *)
(* fraction num/den in lowest terms; 0.0 is 0/1.  messages_data is a       *)
(* function from session ids to message lists.                             *)
(***************************************************************************)
RECURSIVE GCD(_, _)
GCD(a, b) == IF b = 0 THEN a ELSE GCD(b, a % b)

\* n / d
Ratio(n, d) == LET g == GCD(n, d) IN [num |-> n \div g, den |-> d \div g]

\* the element of a singleton; The({e(x) : x \in {v}}) is e(v), with v
\* evaluated once
The(S) == CHOOSE x \in S : TRUE

RECURSIVE SumFrom(_, _)
SumFrom(l, i) == IF i > Len(l) THEN 0 ELSE l[i] + SumFrom(l, i + 1)

\* sum(l)
SumSeq(l) == SumFrom(l, 1)

\* list.sort() on a list of integers: position k holds the k-th smallest value
Sorted(l) ==
    [k \in 1..Len(l) |->
        CHOOSE x \in {l[i] : i \in 1..Len(l)} :
            /\ Cardinality({i \in 1..Len(l) : l[i] < x}) < k
            /\ k <= Cardinality({i \in 1..Len(l) : l[i] <= x})]

\* the median of a non-empty list: the middle value, or the mean of the two
\* middle values
Median(l) ==
    LET word_counts == Sorted(l)
        n == Len(l)
    IN  IF n % 2 = 0 THEN Ratio(word_counts[n \div 2] + word_counts[n \div 2 + 1], 2)
        ELSE Ratio(word_counts[n \div 2 + 1], 1)

\* statistics.mean(l), sum(l) / len(l)
Mean(l) == Ratio(SumSeq(l), Len(l))

\* messages_data.get(session_id, [])
Get(md, id) == IF id \in DOMAIN md THEN md[id] ELSE <<>>

\* the tags of all messages of a list
MessageTags(msgs) ==
    UNION {{msgs[i].tags[j] : j \in 1..Len(msgs[i].tags)} : i \in 1..Len(msgs)}

SessionTags(s) == {s.tags[i] : i \in 1..Len(s.tags)}

is_version_tag(tag) ==
    LET tag_lower == Lower(Chars[tag])
    IN  \/ StartsWith(tag_lower, <<"v">>) /\ IsDigit(SubSeq(tag_lower, 2, Len(tag_lower)))
        \/ Contains(tag_lower, Chars["unreleased"])

is_coaching_method_tag(tag) == StartsWith(Lower(Chars[tag]), Chars["coach_method_"])

is_annotated_session(s, msgs) ==
    LET all_non_version_tags ==
            {t \in SessionTags(s) \cup (IF Falsy(msgs) THEN {} ELSE MessageTags(msgs[1])) :
                ~is_version_tag(t)}
        non_coaching_method_tags == {t \in all_non_version_tags : ~is_coaching_method_tag(t)}
    IN  IF all_non_version_tags = {} THEN FALSE ELSE non_coaching_method_tags # {}

has_refrigerator_example_tag(s, msgs) ==
    \/ "refrigerator_example" \in SessionTags(s)
    \/ ~Falsy(msgs) /\ "refrigerator_example" \in MessageTags(msgs[1])

\* a variant that reads the session's own tags only
has_refrigerator_annotation_session_tags_only(s, msgs) ==
    SessionTags(s) \cap {"refrigerator_example", "not_refrigerator_example"} # {}

has_refrigerator_annotation(s, msgs) ==
    \/ SessionTags(s) \cap {"refrigerator_example", "not_refrigerator_example"} # {}
    \/ /\ ~Falsy(msgs)
       /\ MessageTags(msgs[1]) \cap {"refrigerator_example", "not_refrigerator_example"} # {}

\* the user messages of a list, in order
UserMessages(msgs) == SelectSeq(msgs, LAMBDA m : m.role = "user")

\* the sum of len(content.split()) over the user messages
RECURSIVE UserWordsFrom(_, _)
UserWordsFrom(msgs, i) ==
    IF i > Len(msgs) THEN 0
    ELSE (IF msgs[i].role = "user" THEN WordCount(Chars[msgs[i].content]) ELSE 0)
         + UserWordsFrom(msgs, i + 1)

UserWords(msgs) == UserWordsFrom(msgs, 1)

\* the rows and columns of the per-method tables
MethodRows ==
    <<"Scenario", "Microlearning", "Microlearning vaccines", "Motivational interviewing",
      "Visit check in", "Unknown">>

VersionColumns == <<"V3", "V4", "V5", "V6", "Control">>

MethodSet == {MethodRows[i] : i \in 1..Len(MethodRows)}

VersionSet == {VersionColumns[i] : i \in 1..Len(VersionColumns)}

\* the if/elif chain that shortens a version name; None when no branch applies
VersionLabel(version_name, with_control) ==
    IF with_control /\ Contains(Chars[version_name], Chars["Control"]) THEN Some("Control")
    ELSE IF Contains(Chars[version_name], <<"V", "3">>) THEN Some("V3")
    ELSE IF Contains(Chars[version_name], <<"V", "4">>) THEN Some("V4")
    ELSE IF Contains(Chars[version_name], <<"V", "5">>) THEN Some("V5")
    ELSE IF Contains(Chars[version_name], <<"V", "6">>) THEN Some("V6")
    ELSE None

\* for version_name, version_config in coaching_bot_versions.items(): the
\* first version that matches decides (break)
RECURSIVE VersionLoop(_, _, _, _)
VersionLoop(s, msgs, i, with_control) ==
    IF i > Len(VersionNames) THEN None
    ELSE LET version_name == VersionNames[i]
         IN  IF /\ with_control \/ version_name # "Control bot"
                /\ matches_version(s, coaching_bot_versions[version_name], msgs)
             THEN VersionLabel(version_name, with_control)
             ELSE VersionLoop(s, msgs, i + 1, with_control)

\* what the loops compute for one session: its messages_data.get(id, []),
\* its user word and message counts, its method, its version (with and
\* without the Control bot among the candidates) and its rating
SessionFacts(s, md) ==
    The({
        [session |-> s,
         session_messages |-> session_messages,
         user_message_count |-> Len(UserMessages(session_messages)),
         user_words |-> UserWords(session_messages),
         detected_method |-> detect_coaching_method(s, Some(session_messages)),
         control |-> matches_version(s, coaching_bot_versions["Control bot"],
                                     Some(session_messages)),
         coaching_version |-> VersionLoop(s, Some(session_messages), 1, FALSE),
         version |-> VersionLoop(s, Some(session_messages), 1, TRUE),
         session_rating |-> extract_session_rating(s, Some(session_messages))] :
        session_messages \in {Get(md, s.id)}})

\* for session in sessions: if self.should_exclude_session(...): continue
RECURSIVE ValidLoop(_, _, _)
ValidLoop(ss, md, i) ==
    IF i > Len(ss) THEN <<>>
    ELSE (IF should_exclude_session(ss[i], Some(Get(md, ss[i].id))) THEN <<>>
          ELSE <<SessionFacts(ss[i], md)>>)
         \o ValidLoop(ss, md, i + 1)

\* for session in sessions, without the exclusion test
RECURSIVE AllLoop(_, _, _)
AllLoop(ss, md, i) ==
    IF i > Len(ss) THEN <<>>
    ELSE <<SessionFacts(ss[i], md)>> \o AllLoop(ss, md, i + 1)

\* the sessions of a list of facts, in order
SessionsOf(facts) == [i \in 1..Len(facts) |-> facts[i].session]

\* the refrigerator rates over the sessions that passed the exclusion test
RefrigeratorRates(facts) ==
    [m \in {facts[i].detected_method : i \in 1..Len(facts)} |->
        LET session_list == SelectSeq(facts, LAMBDA f : f.detected_method = m)
            annotated_sessions ==
                SelectSeq(session_list, LAMBDA f :
                    has_refrigerator_annotation(f.session, Some(f.session_messages)))
            refrigerator_count ==
                Len(SelectSeq(annotated_sessions, LAMBDA f :
                    has_refrigerator_example_tag(f.session, Some(f.session_messages))))
        IN  IF Len(annotated_sessions) = 0 THEN Ratio(0, 1)
            ELSE Ratio(refrigerator_count * 100, Len(annotated_sessions))]

calculate_refrigerator_rate_by_method(ss, md) ==
    The({RefrigeratorRates(facts) : facts \in {ValidLoop(ss, md, 1)}})

MessageThreshold == 50

WordThreshold == 1000

\* a variant whose thresholds are themselves outliers
is_outlier_session_inclusive(session_messages, user_message_count, user_words) ==
    IF Len(session_messages) = 0 \/ user_message_count = 0 THEN FALSE
    ELSE user_message_count >= MessageThreshold \/ user_words >= WordThreshold

is_outlier_session(session_messages, user_message_count, user_words) ==
    IF Len(session_messages) = 0 \/ user_message_count = 0 THEN FALSE
    ELSE user_message_count > MessageThreshold \/ user_words > WordThreshold

\* method and version as the two median tables determine them: a Control bot
\* session is Unknown/Control, any other session has its detected method and
\* the first coaching-bot version that matches
MethodAndVersion(f) ==
    IF f.control THEN [detected_method |-> "Unknown", version |-> Some("Control")]
    ELSE [detected_method |-> f.detected_method, version |-> f.coaching_version]

\* the sessions whose method and version are m and v
InCell(facts, m, v) ==
    SelectSeq(facts, LAMBDA f :
        MethodAndVersion(f).version = Some(v) /\ MethodAndVersion(f).detected_method = m)

\* the median of one list of a table; an empty list gives 0.0
MedianOrZero(l) == IF Len(l) = 0 THEN Ratio(0, 1) ELSE Median(l)

\* the sessions for which the loop reaches the append of the words table
words_appended(facts, m, v, exclude_outliers) ==
    SelectSeq(InCell(facts, m, v), LAMBDA f :
        /\ ~(exclude_outliers /\ is_outlier_session(f.session_messages,
                                     f.user_message_count, f.user_words))
        /\ v = "Control" \/ f.user_words > 0)

\* the list of user word counts appended to for one method and version
method_version_words(facts, m, v, exclude_outliers) ==
    LET appended == words_appended(facts, m, v, exclude_outliers)
    IN  [i \in 1..Len(appended) |-> appended[i].user_words]

calculate_median_words_by_method_and_version(ss, md, exclude_outliers) ==
    The({[m \in MethodSet |-> [v \in VersionSet |->
              MedianOrZero(method_version_words(facts, m, v, exclude_outliers))]] :
         facts \in {ValidLoop(ss, md, 1)}})

\* the sessions for which the loop reaches the append of the messages table
messages_appended(facts, m, v) ==
    SelectSeq(InCell(facts, m, v), LAMBDA f : v = "Control" \/ f.user_message_count > 0)

\* the list of user message counts appended to for one method and version
method_version_messages(facts, m, v) ==
    LET appended == messages_appended(facts, m, v)
    IN  [i \in 1..Len(appended) |-> appended[i].user_message_count]

calculate_median_messages_by_method_and_version(ss, md) ==
    The({[m \in MethodSet |-> [v \in VersionSet |->
              MedianOrZero(method_version_messages(facts, m, v))]] :
         facts \in {ValidLoop(ss, md, 1)}})

\* list.sort(key=created_at), a stable sort: position k holds the session
\* with k - 1 sessions before it
SortByCreatedAt(l) ==
    [k \in 1..Len(l) |->
        l[CHOOSE i \in 1..Len(l) :
            Cardinality({j \in 1..Len(l) :
                \/ l[j].session.created_at < l[i].session.created_at
                \/ l[j].session.created_at = l[i].session.created_at /\ j < i}) = k - 1]]

MaxProgressionSessions == 22

\* participant_sessions[participant_id]: the non-excluded sessions of a
\* participant, sorted by creation time
participant_sessions(facts, participant_id) ==
    SortByCreatedAt(SelectSeq(facts, LAMBDA f : f.session.participant = participant_id))

\* a variant without the limit on the session number
ParticipantEntriesUnlimited(participant_session_list, exclude_outliers) ==
    {[session_id |-> participant_session_list[n].session.id,
      session_number |-> n,
      detected_method |-> participant_session_list[n].detected_method,
      version |-> participant_session_list[n].version[1],
      user_words |-> participant_session_list[n].user_words] :
        n \in {k \in 1..Len(participant_session_list) :
                  LET f == participant_session_list[k]
                  IN  /\ ~(exclude_outliers /\ is_outlier_session(f.session_messages,
                                                   f.user_message_count, f.user_words))
                      /\ f.user_words # 0
                      /\ f.version # None}}

\* one record for every session of a participant that reaches
\* `Add to progression data`
ParticipantEntries(participant_session_list, exclude_outliers) ==
    {[session_id |-> participant_session_list[n].session.id,
      session_number |-> n,
      detected_method |-> participant_session_list[n].detected_method,
      version |-> participant_session_list[n].version[1],
      user_words |-> participant_session_list[n].user_words] :
        n \in {k \in 1..Min({Len(participant_session_list), MaxProgressionSessions}) :
                  LET f == participant_session_list[k]
                  IN  /\ ~(exclude_outliers /\ is_outlier_session(f.session_messages,
                                                   f.user_message_count, f.user_words))
                      /\ f.user_words # 0
                      /\ f.version # None}}

ProgressionEntries(facts, exclude_outliers) ==
    UNION {ParticipantEntries(participant_sessions(facts, p), exclude_outliers) :
              p \in {facts[i].session.participant : i \in 1..Len(facts)} \ {""}}

RECURSIVE SumWords(_)
SumWords(entries) ==
    IF entries = {} THEN 0
    ELSE LET e == CHOOSE x \in entries : TRUE
         IN  e.user_words + SumWords(entries \ {e})

\* one line of the graph: the average words at every session number present
Series(entries) ==
    [n \in {e.session_number : e \in entries} |->
        LET at == {e \in entries : e.session_number = n}
        IN  Ratio(SumWords(at), Cardinality(at))]

\* a by_method_version key f"{method}_{version}" is the pair (method, version)
calculate_session_progression_data(ss, md, exclude_outliers) ==
    The({
        [by_method |->
            [m \in MethodSet |-> Series({e \in entries : e.detected_method = m})],
         by_method_version |->
            [mv \in MethodSet \X VersionSet |->
                Series({e \in entries : e.detected_method = mv[1] /\ e.version = mv[2]})],
         by_version |->
            [v \in VersionSet |-> Series({e \in entries : e.version = v})]] :
        entries \in {The({ProgressionEntries(facts, exclude_outliers) :
                             facts \in {ValidLoop(ss, md, 1)}})}})

\* the ratings appended to for one method and version
method_version_ratings(facts, m, v) ==
    LET appended == SelectSeq(facts, LAMBDA f :
            /\ f.session_rating # None
            /\ f.version = Some(v)
            /\ f.detected_method = m)
    IN  [i \in 1..Len(appended) |-> appended[i].session_rating[1]]

\* the mean of one list of the table; an empty list gives 0.0
MeanOrZero(l) == IF Len(l) = 0 THEN Ratio(0, 1) ELSE Mean(l)

calculate_average_rating_by_method_and_version(ss, md) ==
    The({[m \in MethodSet |-> [v \in VersionSet |->
              MeanOrZero(method_version_ratings(facts, m, v))]] :
         facts \in {ValidLoop(ss, md, 1)}})

\* the ratings of the sessions that have one, in order
RatingsOf(facts) ==
    LET rated == SelectSeq(facts, LAMBDA f : f.session_rating # None)
    IN  [i \in 1..Len(rated) |-> rated[i].session_rating[1]]

\* only the sessions with an entry in messages_data are counted
calculate_median_human_words(ss, md) ==
    The({MedianOrZero([i \in 1..Len(facts) |-> facts[i].user_words]) :
         facts \in {AllLoop(SelectSeq(ss, LAMBDA s : s.id \in DOMAIN md), md, 1)}})

calculate_average_rating(ss, md) ==
    The({MeanOrZero(RatingsOf(facts)) :
         facts \in {AllLoop(SelectSeq(ss, LAMBDA s : s.id \in DOMAIN md), md, 1)}})

RatingStatisticsKeywords == {"rate", "rating", "useful", "session", "coaching"}

\* a variant of the question test that looks at the last assistant message only
has_rating_question_last_assistant(msgs) ==
    \E i \in 1..Len(msgs) :
        /\ msgs[i].role = "assistant"
        /\ \A j \in (i + 1)..Len(msgs) : msgs[j].role # "assistant"
        /\ \E pattern \in RatingStatisticsKeywords :
               Contains(Lower(Chars[msgs[i].content]), Chars[pattern])
        /\ \E num \in {"1", "2", "3", "4", "5"} :
               Contains(Lower(Chars[msgs[i].content]), <<num>>)

\* the looser question test of calculate_rating_statistics
has_rating_question(msgs) ==
    \E i \in 1..Len(msgs) :
        /\ msgs[i].role = "assistant"
        /\ \E pattern \in RatingStatisticsKeywords :
               Contains(Lower(Chars[msgs[i].content]), Chars[pattern])
        /\ \E num \in {"1", "2", "3", "4", "5"} :
               Contains(Lower(Chars[msgs[i].content]), <<num>>)

RatingStatistics(valid_sessions) ==
    LET total_sessions == Len(valid_sessions)
        sessions_with_rating_questions ==
            Len(SelectSeq(valid_sessions, LAMBDA f : has_rating_question(f.session_messages)))
        sessions_with_ratings ==
            Len(SelectSeq(valid_sessions, LAMBDA f : f.session_rating # None))
    IN  [total_sessions |-> total_sessions,
         sessions_with_rating_questions |-> sessions_with_rating_questions,
         sessions_with_ratings |-> sessions_with_ratings,
         rating_question_percentage |->
            IF total_sessions > 0 THEN Ratio(sessions_with_rating_questions * 100, total_sessions)
            ELSE Ratio(0, 1),
         rating_extraction_percentage |->
            IF total_sessions > 0 THEN Ratio(sessions_with_ratings * 100, total_sessions)
            ELSE Ratio(0, 1)]

calculate_rating_statistics(ss, md) ==
    The({RatingStatistics(valid_sessions) : valid_sessions \in {ValidLoop(ss, md, 1)}})

calculate_metrics_for_version(version_name, ss, md) ==
    The({
        LET annotated_sessions ==
                SelectSeq(valid_sessions, LAMBDA s : is_annotated_session(s, Some(Get(md, s.id))))
            refrigerator_sessions ==
                SelectSeq(annotated_sessions,
                          LAMBDA s : has_refrigerator_example_tag(s, Some(Get(md, s.id))))
        IN  [version_name |-> version_name,
             total_sessions |-> Len(valid_sessions),
             annotated_sessions |-> Len(annotated_sessions),
             refrigerator_examples_percent |->
                IF Len(annotated_sessions) > 0
                THEN Ratio(Len(refrigerator_sessions) * 100, Len(annotated_sessions))
                ELSE Ratio(0, 1),
             method_refrigerator_rates |->
                calculate_refrigerator_rate_by_method(valid_sessions, md),
             median_human_words_per_session |-> calculate_median_human_words(valid_sessions, md),
             average_session_rating |-> calculate_average_rating(valid_sessions, md),
             average_rating_by_method |->
                calculate_average_rating_by_method_and_version(valid_sessions, md)] :
        valid_sessions \in {SessionsOf(ValidLoop(ss, md, 1))}})

\* generate_dashboard: the sessions handed to calculate_metrics_for_version
version_sessions(version_name, ss, md) ==
    SelectSeq(ss, LAMBDA s :
        matches_version(s, coaching_bot_versions[version_name], Some(Get(md, s.id))))

(***************************************************************************)
(* SpecDash: the aggregations of generate_dashboard applied to every list  *)
(* of up to MaxDashSessions sessions drawn from DashCases.  A case is a    *)
(* session with its entry in messages_data, or with no entry (m = None).   *)
(***************************************************************************)
MaxDashSessions == 3

SessionIds == <<"s1", "s2", "s3", "s4", "s5">>

ControlExperiment == "1027993a-40c9-4484-a5fb-5c7e034dadcd"

V3Experiment == "e2b4855f-8550-47ff-87d2-d92018676ff3"

V5V6Experiment == "5d8be75e-03ff-4e3a-ab6a-e0aff6580986"

RatingQuestion == "How useful was this session? Please rate it from 1 to 5"

Case(participant, experiment, tags, created_at, m) ==
    [participant |-> participant, experiment |-> experiment, tags |-> tags,
     created_at |-> created_at, m |-> m]

DashCases ==
    { \* sessions with user messages
      Case("chw_01", V5V6Experiment, <<>>, 2,
           Some(<<Msg("assistant", "Let us try a Roleplay today", <<>>),
                  Msg("user", "I want a roleplay", <<"v4">>)>>)),
      Case("chw_01", V5V6Experiment, <<"coach_method_microlearning">>, 2,
           Some(<<Msg("assistant", RatingQuestion, <<>>),
                  Msg("user", "5", <<"v5", "refrigerator_example">>)>>)),
      Case("chw_02", ControlExperiment, <<"not_refrigerator_example">>, 1,
           Some(<<Msg("user", "I would say 4 out of 5", <<>>)>>)),
      Case("", V3Experiment, <<"follow_up">>, 1,
           Some(<<Msg("user", "", <<>>)>>)),
      \* a session of a staff account
      Case("tester@dimagi.com", V5V6Experiment, <<"refrigerator_example">>, 1,
           Some(<<Msg("assistant", RatingQuestion, <<>>),
                  Msg("user", "Four", <<"v5">>)>>)),
      \* sessions without user messages: no entry, assistant messages only
      Case("chw_01", V3Experiment, <<"refrigerator_example", "coach_method_scenarios">>, 1, None),
      Case("chw_01", V5V6Experiment, <<>>, 1,
           Some(<<Msg("assistant", RatingQuestion, <<"refrigerator_example", "v5">>)>>)) }

InitDash ==
    /\ \E cases \in ListsUpTo(DashCases, MaxDashSessions) :
        /\ sessions = [i \in 1..Len(cases) |->
                          Session(SessionIds[i], cases[i].participant, cases[i].experiment,
                                  cases[i].tags, cases[i].created_at)]
        /\ messages_data = [id \in {SessionIds[i] : i \in {k \in 1..Len(cases) : cases[k].m # None}} |->
                               cases[CHOOSE i \in 1..Len(cases) : SessionIds[i] = id].m[1]]
    /\ loader = "dashboard"
    /\ session_files = <<>>
    /\ filter_participant_ids = {}
    /\ message_files = <<>>
    /\ session = PlainSession
    /\ messages = None
    /\ op = "input"
    /\ result = None

CallMetricsForVersion ==
    /\ op = "input"
    /\ \E i \in 1..Len(VersionNames) :
        result' = calculate_metrics_for_version(VersionNames[i],
                      version_sessions(VersionNames[i], sessions, messages_data), messages_data)
    /\ op' = "calculate_metrics_for_version"
    /\ UNCHANGED <<session, messages, loadVars>>

CallRefrigeratorRate ==
    /\ op = "input"
    /\ op' = "calculate_refrigerator_rate_by_method"
    /\ result' = calculate_refrigerator_rate_by_method(sessions, messages_data)
    /\ UNCHANGED <<session, messages, loadVars>>

CallMedianWords ==
    /\ op = "input"
    /\ \E exclude_outliers \in BOOLEAN :
        /\ op' = IF exclude_outliers
                 THEN "calculate_median_words_by_method_and_version(exclude_outliers)"
                 ELSE "calculate_median_words_by_method_and_version"
        /\ result' = calculate_median_words_by_method_and_version(sessions, messages_data,
                                                                  exclude_outliers)
    /\ UNCHANGED <<session, messages, loadVars>>

CallMedianMessages ==
    /\ op = "input"
    /\ op' = "calculate_median_messages_by_method_and_version"
    /\ result' = calculate_median_messages_by_method_and_version(sessions, messages_data)
    /\ UNCHANGED <<session, messages, loadVars>>

CallProgression ==
    /\ op = "input"
    /\ \E exclude_outliers \in BOOLEAN :
        /\ op' = IF exclude_outliers
                 THEN "calculate_session_progression_data(exclude_outliers)"
                 ELSE "calculate_session_progression_data"
        /\ result' = calculate_session_progression_data(sessions, messages_data, exclude_outliers)
    /\ UNCHANGED <<session, messages, loadVars>>

CallAverageRating ==
    /\ op = "input"
    /\ op' = "calculate_average_rating_by_method_and_version"
    /\ result' = calculate_average_rating_by_method_and_version(sessions, messages_data)
    /\ UNCHANGED <<session, messages, loadVars>>

CallRatingStatistics ==
    /\ op = "input"
    /\ op' = "calculate_rating_statistics"
    /\ result' = calculate_rating_statistics(sessions, messages_data)
    /\ UNCHANGED <<session, messages, loadVars>>

NextDash ==
    \/ CallMetricsForVersion
    \/ CallRefrigeratorRate
    \/ CallMedianWords
    \/ CallMedianMessages
    \/ CallProgression
    \/ CallAverageRating
    \/ CallRatingStatistics

SpecDash == InitDash /\ [][NextDash]_vars

\* the staff accounts among the participants of DashCases
StaffParticipants == {"tester@dimagi.com"}

\* the message list of a session, empty when messages_data has no entry
MessagesOfSession(s) == IF s.id \in DOMAIN messages_data THEN messages_data[s.id] ELSE <<>>

\* a split session (no user-role message) or a test session (staff account)
SplitOrTest(s) ==
    \/ \A i \in 1..Len(MessagesOfSession(s)) : MessagesOfSession(s)[i].role # "user"
    \/ s.participant \in StaffParticipants

\* the sessions left when every split or test session is removed
Remaining == SelectSeq(sessions, LAMBDA s : ~SplitOrTest(s))

\* the sessions of `Remaining` that belong to the version of the metrics row
RemainingOfVersion(version_name) == version_sessions(version_name, Remaining, messages_data)

\* C1: no split session and no test session contributes to a metric: every
\* aggregation returns what it returns when these sessions are removed from its
\* input, total_sessions counts the remaining sessions only, and
\* annotated_sessions counts no more than those.
C1_ExcludedContributeNothing ==
    /\ op = "calculate_metrics_for_version" =>
        /\ result = calculate_metrics_for_version(result.version_name,
                        RemainingOfVersion(result.version_name), messages_data)
        /\ result.total_sessions = Len(RemainingOfVersion(result.version_name))
        /\ result.annotated_sessions <= Len(RemainingOfVersion(result.version_name))
    /\ op = "calculate_refrigerator_rate_by_method" =>
        result = calculate_refrigerator_rate_by_method(Remaining, messages_data)
    /\ op = "calculate_median_words_by_method_and_version" =>
        result = calculate_median_words_by_method_and_version(Remaining, messages_data, FALSE)
    /\ op = "calculate_median_words_by_method_and_version(exclude_outliers)" =>
        result = calculate_median_words_by_method_and_version(Remaining, messages_data, TRUE)
    /\ op = "calculate_median_messages_by_method_and_version" =>
        result = calculate_median_messages_by_method_and_version(Remaining, messages_data)
    /\ op = "calculate_session_progression_data" =>
        result = calculate_session_progression_data(Remaining, messages_data, FALSE)
    /\ op = "calculate_session_progression_data(exclude_outliers)" =>
        result = calculate_session_progression_data(Remaining, messages_data, TRUE)
    /\ op = "calculate_average_rating_by_method_and_version" =>
        result = calculate_average_rating_by_method_and_version(Remaining, messages_data)
    /\ op = "calculate_rating_statistics" =>
        /\ result = calculate_rating_statistics(Remaining, messages_data)
        /\ result.total_sessions = Len(Remaining)

\* the V6 row computed from a rated session, a staff session and an
\* assistant-only session of that version: only the first is counted
C1_Witness ==
    /\ op = "calculate_metrics_for_version"
    /\ result.version_name = "Coaching bot V6"
    /\ Len(version_sessions("Coaching bot V6", sessions, messages_data)) = 3
    /\ \E i \in 1..Len(sessions) : sessions[i].participant \in StaffParticipants
    /\ \E i \in 1..Len(sessions) :
        /\ sessions[i].participant \notin StaffParticipants
        /\ Len(MessagesOfSession(sessions[i])) > 0
        /\ SplitOrTest(sessions[i])
    /\ result.total_sessions = 1
    /\ result.average_session_rating = Ratio(5, 1)

(***************************************************************************)
(* SpecCopies: the copies of the classifiers in find_v6_unknown_sessions   *)
(* and investigate_spike applied to the inputs of SpecMethod and of        *)
(* SpecVersion.                                                            *)
(***************************************************************************)
\* the five configurations of the dashboard and one with a two-sided range
\* over two experiments
VersionConfigs ==
    coaching_bot_versions @@
    ("two experiments" :>
        [experiment_id |-> <<V3Experiment, V5V6Experiment>>, version_range |-> Range(4, Some(12))])

InitCopies ==
    /\ \/ /\ session \in {Session("s1", "chw_01", V3Experiment, tg, 1) : tg \in MethodSessionTags}
          /\ messages \in MethodInputs
       \/ /\ session \in {Session("s1", "chw_01", e, <<"v13">>, 1) : e \in VersionExperiments}
          /\ messages \in VersionInputs
    /\ op = "input"
    /\ result = None
    /\ NoFiles

CallV6DetectCoachingMethod ==
    /\ op = "input"
    /\ op' = "find_v6_unknown_sessions.detect_coaching_method"
    /\ result' = v6_detect_coaching_method(session, messages)
    /\ UNCHANGED <<session, messages, loadVars>>

CallSpikeDetectCoachingMethod ==
    /\ op = "input"
    /\ op' = "investigate_spike.detect_coaching_method"
    /\ result' = spike_detect_coaching_method(session, messages)
    /\ UNCHANGED <<session, messages, loadVars>>

CallV6GetVersion ==
    /\ op = "input"
    /\ op' = "find_v6_unknown_sessions.get_version_from_last_message"
    /\ result' = v6_get_version_from_last_message(messages)
    /\ UNCHANGED <<session, messages, loadVars>>

CallV6MatchesVersion ==
    /\ op = "input"
    /\ \E n \in DOMAIN VersionConfigs :
           /\ op' = "find_v6_unknown_sessions.matches_version"
           /\ result' = [version_name |-> n,
                         value |-> v6_matches_version(session, VersionConfigs[n], messages)]
    /\ UNCHANGED <<session, messages, loadVars>>

NextCopies ==
    \/ CallV6DetectCoachingMethod
    \/ CallSpikeDetectCoachingMethod
    \/ CallV6GetVersion
    \/ CallV6MatchesVersion

SpecCopies == InitCopies /\ [][NextCopies]_vars

\* C11: the copies of detect_coaching_method in find_v6_unknown_sessions.py and
\* investigate_spike.py return the method the dashboard's detect_coaching_method
\* returns, and the copies of get_version_from_last_message and matches_version
\* in find_v6_unknown_sessions.py return what the dashboard's methods return,
\* for every session, message list and version configuration.
C11_CopiesAgree ==
    /\ op = "find_v6_unknown_sessions.detect_coaching_method" =>
        result = detect_coaching_method(session, messages)
    /\ op = "investigate_spike.detect_coaching_method" =>
        result = detect_coaching_method(session, messages)
    /\ op = "find_v6_unknown_sessions.get_version_from_last_message" =>
        result = get_version_from_last_message(messages)
    /\ op = "find_v6_unknown_sessions.matches_version" =>
        result.value = matches_version(session, VersionConfigs[result.version_name], messages)

\* the find_v6_unknown_sessions copy decides by a message tag where the
\* keywords of the same message name another method
C11_Witness ==
    /\ op = "find_v6_unknown_sessions.detect_coaching_method"
    /\ session.tags = <<"v5", "follow_up">>
    /\ messages = Some(<<Msg("assistant", "Time for a short quiz",
                             <<"coach_method_motivational_interviewing">>)>>)
    /\ result = "Motivational interviewing"

(***************************************************************************)
(* SpecRefrigerator: calculate_refrigerator_rate_by_method on every list   *)
(* of up to MaxDashSessions of the RefrigeratorCases.                      *)
(***************************************************************************)
\* the state after the loaders returned the sessions of a list of cases
InitUpTo(case_set, n) ==
    /\ \E cases \in ListsUpTo(case_set, n) :
        /\ sessions = [i \in 1..Len(cases) |->
                          Session(SessionIds[i], cases[i].participant, cases[i].experiment,
                                  cases[i].tags, cases[i].created_at)]
        /\ messages_data = [id \in {SessionIds[i] : i \in {k \in 1..Len(cases) : cases[k].m # None}} |->
                               cases[CHOOSE i \in 1..Len(cases) : SessionIds[i] = id].m[1]]
    /\ loader = "dashboard"
    /\ session_files = <<>>
    /\ filter_participant_ids = {}
    /\ message_files = <<>>
    /\ session = PlainSession
    /\ messages = None
    /\ op = "input"
    /\ result = None

InitFrom(case_set) == InitUpTo(case_set, MaxDashSessions)

RefrigeratorCases ==
    { \* no method tag or keyword: the tag on the session, on a message, absent
      Case("chw_01", V3Experiment, <<"refrigerator_example">>, 1,
           Some(<<Msg("user", "Hello, how are you?", <<>>)>>)),
      Case("chw_01", V3Experiment, <<>>, 1,
           Some(<<Msg("user", "Hello, how are you?", <<"not_refrigerator_example">>)>>)),
      Case("chw_02", V3Experiment, <<"follow_up">>, 1,
           Some(<<Msg("user", "Hello, how are you?", <<"v5">>)>>)),
      \* a Scenario session with the tag on an assistant message
      Case("chw_02", V5V6Experiment, <<"coach_method_scenarios">>, 1,
           Some(<<Msg("assistant", "Hello, how are you?", <<"refrigerator_example">>),
                  Msg("user", "It was great", <<>>)>>)),
      \* a Scenario session without either tag
      Case("chw_02", V5V6Experiment, <<"coach_method_scenarios">>, 1,
           Some(<<Msg("user", "It was great", <<>>)>>)),
      \* excluded sessions: a staff account, no user message
      Case("tester@dimagi.com", V3Experiment, <<"refrigerator_example">>, 1,
           Some(<<Msg("user", "Hello, how are you?", <<>>)>>)),
      Case("chw_01", V3Experiment, <<"not_refrigerator_example">>, 1,
           Some(<<Msg("assistant", "Time for a short quiz", <<>>)>>)) }

InitRefrigerator == InitFrom(RefrigeratorCases)

NextRefrigerator == CallRefrigeratorRate

SpecRefrigerator == InitRefrigerator /\ [][NextRefrigerator]_vars

\* the tags a session carries, on itself or on any of its messages
CarriedTags(s) == SessionTags(s) \cup MessageTags(MessagesOfSession(s))

\* the positions in Remaining of the sessions of a method
RemainingOfMethod(m) ==
    {i \in 1..Len(Remaining) :
        detect_coaching_method(Remaining[i], Some(MessagesOfSession(Remaining[i]))) = m}

\* C13: calculate_refrigerator_rate_by_method has one entry for each method
\* with at least one non-excluded session: 100 times the number of the
\* method's sessions carrying refrigerator_example, on the session or on any
\* message, over the number carrying refrigerator_example or
\* not_refrigerator_example; 0.0 when no session carries either; every rate
\* lies between 0 and 100.
C13_RefrigeratorRate ==
    op = "calculate_refrigerator_rate_by_method" =>
        /\ DOMAIN result = {m \in MethodSet : RemainingOfMethod(m) # {}}
        /\ \A m \in DOMAIN result :
            LET with_example ==
                    {i \in RemainingOfMethod(m) :
                        "refrigerator_example" \in CarriedTags(Remaining[i])}
                with_either ==
                    {i \in RemainingOfMethod(m) :
                        \/ "refrigerator_example" \in CarriedTags(Remaining[i])
                        \/ "not_refrigerator_example" \in CarriedTags(Remaining[i])}
            IN  /\ result[m] = IF with_either = {} THEN Ratio(0, 1)
                               ELSE Ratio(100 * Cardinality(with_example),
                                          Cardinality(with_either))
                /\ 0 <= result[m].num
                /\ result[m].num <= 100 * result[m].den

\* one method at 50 (one of its two tagged sessions has refrigerator_example,
\* and its tag is on a message of the other), another at 0.0 for want of a
\* tagged session
C13_Witness ==
    /\ op = "calculate_refrigerator_rate_by_method"
    /\ Len(sessions) = 3
    /\ DOMAIN result = {"Unknown", "Scenario"}
    /\ result["Unknown"] = Ratio(50, 1)
    /\ result["Scenario"] = Ratio(0, 1)
    /\ \E i \in 1..Len(sessions) :
           /\ "not_refrigerator_example" \notin SessionTags(sessions[i])
           /\ "not_refrigerator_example" \in CarriedTags(sessions[i])

(***************************************************************************)
(* SpecAnnotated: calculate_metrics_for_version, as generate_dashboard     *)
(* calls it for each version, on every list of up to MaxDashSessions of    *)
(* the AnnotatedCases.                                                     *)
(***************************************************************************)
AnnotatedCases ==
    { \* version tags only
      Case("chw_01", V3Experiment, <<"v5">>, 1,
           Some(<<Msg("user", "Hello, how are you?", <<"v13", "v5_unreleased">>)>>)),
      \* beside version tags, a coaching-method tag only
      Case("chw_01", V3Experiment, <<"v5", "coach_method_scenarios">>, 1,
           Some(<<Msg("user", "Hello, how are you?", <<"v13">>)>>)),
      \* a coaching-method tag and another tag, on a message
      Case("chw_02", V3Experiment, <<"coach_method_scenarios">>, 1,
           Some(<<Msg("user", "Hello, how are you?", <<"v13", "follow_up">>)>>)),
      \* refrigerator_example on a message, not_refrigerator_example on the session
      Case("chw_02", ControlExperiment, <<>>, 1,
           Some(<<Msg("assistant", "Hello, how are you?", <<"refrigerator_example">>),
                  Msg("user", "It was great", <<>>)>>)),
      Case("chw_02", ControlExperiment, <<"not_refrigerator_example">>, 1,
           Some(<<Msg("user", "It was great", <<>>)>>)),
      \* excluded sessions: a staff account, no user message
      Case("tester@dimagi.com", V3Experiment, <<"refrigerator_example">>, 1,
           Some(<<Msg("user", "Hello, how are you?", <<>>)>>)),
      Case("chw_01", V3Experiment, <<"follow_up">>, 1, None) }

InitAnnotated == InitFrom(AnnotatedCases)

NextAnnotated == CallMetricsForVersion

SpecAnnotated == InitAnnotated /\ [][NextAnnotated]_vars

\* the tags of the AnnotatedCases that are neither 'v' followed by digits nor
\* contain 'unreleased'
NonVersionTags ==
    {"coach_method_scenarios", "follow_up", "refrigerator_example", "not_refrigerator_example"}

\* the positions, among the non-excluded sessions of a version, of those that
\* carry a tag of the set on the session or on one of its messages
Carrying(version_name, tags) ==
    {i \in 1..Len(RemainingOfVersion(version_name)) :
        CarriedTags(RemainingOfVersion(version_name)[i]) \cap tags # {}}

\* C14: a non-excluded session is counted in '# Annotated Sessions' exactly
\* when the session or one of its messages carries at least one non-version
\* tag, and 'Refrigeration Examples (%)' is the share of those sessions that
\* carry refrigerator_example, 0.0 when there are none.
C14_AnnotatedAsDefined ==
    op = "calculate_metrics_for_version" =>
        LET annotated == Carrying(result.version_name, NonVersionTags)
            refrigerator ==
                annotated \cap Carrying(result.version_name, {"refrigerator_example"})
        IN  /\ result.annotated_sessions = Cardinality(annotated)
            /\ result.refrigerator_examples_percent =
                   IF annotated = {} THEN Ratio(0, 1)
                   ELSE Ratio(100 * Cardinality(refrigerator), Cardinality(annotated))

(***************************************************************************)
(* SpecControl: the three per-method tables on every list of up to         *)
(* MaxDashSessions of the ControlCases.                                    *)
(***************************************************************************)
ControlCases ==
    { \* Control bot sessions: a method tag and a rating, a method keyword,
      \* neither tag nor keyword
      Case("chw_01", ControlExperiment, <<"coach_method_scenarios">>, 1,
           Some(<<Msg("assistant", RatingQuestion, <<>>),
                  Msg("user", "5", <<>>)>>)),
      Case("chw_01", ControlExperiment, <<>>, 2,
           Some(<<Msg("assistant", "Time for a short quiz", <<>>),
                  Msg("user", "It was great", <<>>)>>)),
      Case("chw_02", ControlExperiment, <<>>, 1,
           Some(<<Msg("assistant", RatingQuestion, <<>>),
                  Msg("user", "Four", <<>>)>>)),
      \* a coaching bot session with a method tag and a rating
      Case("chw_02", V3Experiment, <<"coach_method_scenarios">>, 2,
           Some(<<Msg("assistant", RatingQuestion, <<>>),
                  Msg("user", " 3 ", <<>>)>>)),
      \* excluded sessions: a staff account, no user message
      Case("tester@dimagi.com", ControlExperiment, <<"coach_method_scenarios">>, 1,
           Some(<<Msg("assistant", RatingQuestion, <<>>),
                  Msg("user", "5", <<>>)>>)),
      Case("chw_01", ControlExperiment, <<"coach_method_microlearning">>, 1,
           Some(<<Msg("assistant", RatingQuestion, <<>>)>>)) }

InitControl == InitFrom(ControlCases)

NextControl ==
    \/ CallMedianWords
    \/ CallMedianMessages
    \/ CallAverageRating

SpecControl == InitControl /\ [][NextControl]_vars

\* C15: in each per-method table (median words, median messages, average
\* rating by method and version) the Control bot sessions are all under the
\* method 'Unknown', whatever tags or content they carry: no other row has a
\* Control bot value.
C15_ControlUnderUnknown ==
    op \in {"calculate_median_words_by_method_and_version",
            "calculate_median_words_by_method_and_version(exclude_outliers)",
            "calculate_median_messages_by_method_and_version",
            "calculate_average_rating_by_method_and_version"} =>
        \A m \in MethodSet \ {"Unknown"} : result[m]["Control"] = Ratio(0, 1)

\* the two median tables do keep every Control bot session under 'Unknown'
C15_MedianTablesPart ==
    op \in {"calculate_median_words_by_method_and_version",
            "calculate_median_words_by_method_and_version(exclude_outliers)",
            "calculate_median_messages_by_method_and_version"} =>
        \A m \in MethodSet \ {"Unknown"} : result[m]["Control"] = Ratio(0, 1)

(***************************************************************************)
(* SpecFiltering: the per-version metrics and the two median tables on     *)
(* every list of up to MaxDashSessions of the FilteringCases.              *)
(***************************************************************************)
FilteringCases ==
    { \* coaching bot sessions whose user messages have words
      Case("chw_01", V3Experiment, <<>>, 1,
           Some(<<Msg("user", "Hello, how are you?", <<>>)>>)),
      Case("chw_02", V5V6Experiment, <<"coach_method_scenarios">>, 1,
           Some(<<Msg("user", "It was great", <<"v5">>)>>)),
      \* a coaching bot session and a Control bot session whose only user
      \* message is empty
      Case("chw_01", V3Experiment, <<>>, 2,
           Some(<<Msg("assistant", "Hello, how are you?", <<>>),
                  Msg("user", "", <<>>)>>)),
      Case("chw_02", ControlExperiment, <<>>, 1,
           Some(<<Msg("user", "", <<>>)>>)),
      \* excluded sessions: a staff account, no user message, no entry
      Case("tester@dimagi.com", V3Experiment, <<>>, 1,
           Some(<<Msg("user", "Hello, how are you?", <<>>)>>)),
      Case("chw_01", V3Experiment, <<>>, 1,
           Some(<<Msg("assistant", "Hello, how are you?", <<>>)>>)),
      Case("chw_01", ControlExperiment, <<>>, 1, None) }

InitFiltering == InitFrom(FilteringCases)

NextFiltering ==
    \/ CallMetricsForVersion
    \/ CallMedianWords
    \/ CallMedianMessages

SpecFiltering == InitFiltering /\ [][NextFiltering]_vars

\* the ids of the sessions of a list of facts
IdsOf(facts) == {facts[i].session.id : i \in 1..Len(facts)}

\* the sessions counted in a version's '# Sessions'
CountedSessions(version_name) ==
    IdsOf(ValidLoop(version_sessions(version_name, sessions, messages_data), messages_data, 1))

\* the sessions that contribute to the column of a version in the median-words
\* table and in the median-messages table of the dashboard
WordsTableSessions(version_name) ==
    UNION {IdsOf(words_appended(ValidLoop(sessions, messages_data, 1), m,
                                VersionLabel(version_name, TRUE)[1], FALSE)) : m \in MethodSet}

MessagesTableSessions(version_name) ==
    UNION {IdsOf(messages_appended(ValidLoop(sessions, messages_data, 1), m,
                                   VersionLabel(version_name, TRUE)[1])) : m \in MethodSet}

\* C16: all tables use the same exclusion criteria: for every version, the
\* sessions that contribute a value to the per-method median-words and
\* median-messages tables are exactly the sessions counted in the version's
\* total_sessions, which are those used for its median human words.
C16_SameSessionsEverywhere ==
    op = "calculate_metrics_for_version" =>
        /\ result.total_sessions = Cardinality(CountedSessions(result.version_name))
        /\ CountedSessions(result.version_name) \subseteq DOMAIN messages_data
        /\ WordsTableSessions(result.version_name) = CountedSessions(result.version_name)
        /\ MessagesTableSessions(result.version_name) = CountedSessions(result.version_name)

\* all but the median-words table do have the same sessions
C16_MessagesTablePart ==
    op = "calculate_metrics_for_version" =>
        /\ result.total_sessions = Cardinality(CountedSessions(result.version_name))
        /\ CountedSessions(result.version_name) \subseteq DOMAIN messages_data
        /\ WordsTableSessions(result.version_name) \subseteq CountedSessions(result.version_name)
        /\ MessagesTableSessions(result.version_name) = CountedSessions(result.version_name)

(***************************************************************************)
(* SpecProgression: calculate_session_progression_data on the sessions of  *)
(* one or two participants, up to MaxParticipantSessions in all, handed    *)
(* over in ascending or in descending order of creation.                   *)
(***************************************************************************)
MaxParticipantSessions == 24

\* the user message of the session created at time c: four words, one word
\* or three words
ContentAt(c) ==
    IF c % 3 = 1 THEN "Hello, how are you?" ELSE IF c % 3 = 2 THEN "5" ELSE "It was great"

\* n sessions of the V3 experiment, the i-th created at time i, or at time
\* n + 1 - i when descending; the last `others` of them belong to chw_02;
\* the session at position empty has a user message without words and the
\* one at position split has no user message
ProgressionInput(n, descending, others, empty, split) ==
    [ss |-> [i \in 1..n |->
                Session(ToString(i), IF i > n - others THEN "chw_02" ELSE "chw_01",
                        V3Experiment, <<>>, IF descending THEN n + 1 - i ELSE i)],
     md |-> [id \in {ToString(i) : i \in 1..n} |->
                LET i == CHOOSE k \in 1..n : ToString(k) = id
                    c == IF descending THEN n + 1 - i ELSE i
                IN  IF i = split THEN <<Msg("assistant", "Hello, how are you?", <<>>)>>
                    ELSE IF i = empty THEN <<Msg("user", "", <<>>)>>
                    ELSE <<Msg("user", ContentAt(c), <<>>)>>]]

InitProgression ==
    /\ \E n \in (0..3) \cup ((MaxParticipantSessions - 3)..MaxParticipantSessions),
          descending \in BOOLEAN, others \in {0, 2}, empty \in {0, 2, 21}, split \in {0, 1, 20} :
        /\ others <= n /\ empty <= n /\ split <= n
        /\ sessions = ProgressionInput(n, descending, others, empty, split).ss
        /\ messages_data = ProgressionInput(n, descending, others, empty, split).md
    /\ loader = "dashboard"
    /\ session_files = <<>>
    /\ filter_participant_ids = {}
    /\ message_files = <<>>
    /\ session = PlainSession
    /\ messages = None
    /\ op = "input"
    /\ result = None

NextProgression == CallProgression

SpecProgression == InitProgression /\ [][NextProgression]_vars

\* the words Python's split() finds in the contents of the input
WordsOfContent ==
    ("Hello, how are you?" :> 4) @@ ("5" :> 1) @@ ("It was great" :> 3) @@ ("" :> 0)

\* the non-excluded sessions, each with its number among the non-excluded
\* sessions of its participant in ascending created_at order and the words of
\* its user message
Numbered(remaining) ==
    {[session_id |-> remaining[i].id,
      session_number |->
          1 + Cardinality({j \in 1..Len(remaining) :
                              /\ remaining[j].participant = remaining[i].participant
                              /\ remaining[j].created_at < remaining[i].created_at}),
      user_words |-> WordsOfContent[MessagesOfSession(remaining[i])[1].content]] :
        i \in 1..Len(remaining)}

\* the average words at every session number up to the limit, over the
\* numbered sessions that have words
ExpectedSeries(numbered) ==
    LET contributing ==
            {e \in numbered : e.session_number <= MaxProgressionSessions /\ e.user_words > 0}
    IN  [n \in {e.session_number : e \in contributing} |->
            LET at == {e \in contributing : e.session_number = n}
            IN  Ratio(SumWords(at), Cardinality(at))]

MaxOutlierSessions == 2

\* a user message of 24 words
LongAnswer ==
    "My answer is 2 because the examples were clear and the advice was practical, and I will use it on my next home visit"

\* n user messages: the first `long` of them LongAnswer, the others of four words
UserTurns(n, long) ==
    [i \in 1..n |-> Msg("user", IF i <= long THEN LongAnswer ELSE "Hello, how are you?", <<>>)]

OutlierCases ==
    { \* an ordinary session
      Case("chw_01", V3Experiment, <<"coach_method_scenarios">>, 1, Some(UserTurns(1, 0))),
      \* 50 user messages and 1000 user words
      Case("chw_01", V3Experiment, <<"coach_method_scenarios">>, 2, Some(UserTurns(50, 40))),
      \* 51 user messages, 204 user words
      Case("chw_02", V3Experiment, <<"coach_method_scenarios">>, 1, Some(UserTurns(51, 0))),
      \* 42 user messages, 1008 user words
      Case("chw_02", V3Experiment, <<"coach_method_scenarios">>, 2, Some(UserTurns(42, 42))),
      \* a Control bot session of 51 user messages
      Case("chw_01", ControlExperiment, <<>>, 1, Some(UserTurns(51, 0))) }

InitOutlier == InitUpTo(OutlierCases, MaxOutlierSessions)

CallIsOutlierSession ==
    /\ op = "input"
    /\ \E session_messages \in {<<>>, UserTurns(1, 0)},
          user_message_count \in {0, 1, 50, 51},
          user_words \in {0, 4, 1000, 1001} :
        result' = [session_messages |-> session_messages,
                   user_message_count |-> user_message_count,
                   user_words |-> user_words,
                   value |-> is_outlier_session(session_messages, user_message_count,
                                                user_words)]
    /\ op' = "is_outlier_session"
    /\ UNCHANGED <<session, messages, loadVars>>

NextOutlier ==
    \/ CallIsOutlierSession
    \/ CallMedianWords
    \/ CallProgression

SpecOutlier == InitOutlier /\ [][NextOutlier]_vars

\* the words Python's split() finds in the user messages from position i on
RECURSIVE SplitWordsFrom(_, _)
SplitWordsFrom(msgs, i) ==
    IF i > Len(msgs) THEN 0
    ELSE (IF msgs[i].role # "user" THEN 0
          ELSE IF msgs[i].content = LongAnswer THEN 24
          ELSE WordsOfContent[msgs[i].content])
         + SplitWordsFrom(msgs, i + 1)

\* the sessions with more than 50 user messages or more than 1000 user words
OutlierIds ==
    {sessions[i].id : i \in {k \in 1..Len(sessions) :
        \/ Cardinality({j \in 1..Len(MessagesOfSession(sessions[k])) :
                           MessagesOfSession(sessions[k])[j].role = "user"}) > 50
        \/ SplitWordsFrom(MessagesOfSession(sessions[k]), 1) > 1000}}

\* the input without the outlier sessions
WithoutOutliers == SelectSeq(sessions, LAMBDA s : s.id \notin OutlierIds)

\* the messages with those of every outlier session replaced by one user
\* message without words
OutliersSilenced ==
    [id \in DOMAIN messages_data |->
        IF id \in OutlierIds THEN <<Msg("user", "", <<>>)>> ELSE messages_data[id]]

\* C18: is_outlier_session returns False for an empty message list or a
\* user-message count of 0, and otherwise True exactly for more than 50 user
\* messages or more than 1000 user words (50 messages and 1000 words are not an
\* outlier); with exclude_outliers=True no outlier session contributes to the
\* median-words table (the table is that of the input without the outliers)
\* or to the progression data (the data are those of the input in which the
\* outliers keep their place and have no words).
C18_Outliers ==
    /\ op = "is_outlier_session" =>
        result.value =
            IF result.session_messages = <<>> \/ result.user_message_count = 0 THEN FALSE
            ELSE result.user_message_count > 50 \/ result.user_words > 1000
    /\ op = "calculate_median_words_by_method_and_version(exclude_outliers)" =>
        result = calculate_median_words_by_method_and_version(WithoutOutliers, messages_data, FALSE)
    /\ op = "calculate_session_progression_data(exclude_outliers)" =>
        result = calculate_session_progression_data(sessions, OutliersSilenced, FALSE)

\* a session of 50 user messages and 1000 user words and a session of 1008
\* user words, both Scenario sessions of V3: the median is that of the first
C18_Witness ==
    /\ op = "calculate_median_words_by_method_and_version(exclude_outliers)"
    /\ Len(sessions) = 2
    /\ Cardinality(OutlierIds) = 1
    /\ \E i \in 1..2 :
        /\ Len(MessagesOfSession(sessions[i])) = 50
        /\ SplitWordsFrom(MessagesOfSession(sessions[i]), 1) = 1000
    /\ \E i \in 1..2 :
        /\ Len(MessagesOfSession(sessions[i])) = 42
        /\ SplitWordsFrom(MessagesOfSession(sessions[i]), 1) = 1008
    /\ result["Scenario"]["V3"] = Ratio(1000, 1)

(***************************************************************************)
(* run_dashboard.py.  generate_dashboard is taken by its outcome: it       *)
(* raises, returns None (no sessions were loaded) or writes the file and   *)
(* returns its path.                                                        *)
(***************************************************************************)
\* the attributes SimpleVersionComparisonDashboard.__init__ sets
DashboardAttributes == {"output_dir", "coaching_bot_versions"}

\* generate_dashboard(): raised, or the value returned
generate_dashboard(ss, raises) ==
    IF raises THEN [raised |-> TRUE, output_file |-> None]
    ELSE IF Len(ss) = 0 THEN [raised |-> FALSE, output_file |-> None]
    ELSE [raised |-> FALSE, output_file |-> Some("version_comparison_dashboard.html")]

\* main(): the exit code, whether generate_dashboard wrote the file, and the
\* lines printed; reading an attribute the dashboard does not have raises
\* AttributeError inside the try block
main(args, ss, env) ==
    LET verbose_lines ==
            IF args.verbose THEN <<"Verbose mode enabled", "Output directory">> ELSE <<>>
        error_lines ==
            <<"Error generating dashboard">> \o (IF args.verbose THEN <<"traceback">> ELSE <<>>)
        generated == generate_dashboard(ss, env.generation_raises)
    IN  IF args.verbose /\ "data_dir" \notin DashboardAttributes
        THEN [exit_code |-> 1, written |-> FALSE, printed |-> verbose_lines \o error_lines]
        ELSE IF generated.raised
        THEN [exit_code |-> 1, written |-> FALSE,
              printed |-> verbose_lines \o <<"Starting">> \o error_lines]
        ELSE IF generated.output_file # None /\ env.output_exists
        THEN [exit_code |-> 0, written |-> TRUE,
              printed |-> verbose_lines \o <<"Starting", "Dashboard generated successfully">>]
        ELSE [exit_code |-> 1, written |-> generated.output_file # None,
              printed |-> verbose_lines \o <<"Starting", "Failed to generate dashboard">>]

(***************************************************************************)
(* SpecRun: run_dashboard.main with every combination of its options, on   *)
(* every list of up to MaxOutlierSessions loaded sessions, with            *)
(* generate_dashboard raising or not and the output file still there or    *)
(* not when main looks for it.                                             *)
(***************************************************************************)
InitRun == InitUpTo(FilteringCases, MaxOutlierSessions)

CallMain ==
    /\ op = "input"
    /\ \E verbose \in BOOLEAN, test \in BOOLEAN, output \in {None, Some("custom/")},
          generation_raises \in BOOLEAN, output_exists \in BOOLEAN :
        result' = [args |-> [verbose |-> verbose, test |-> test, output |-> output],
                   env |-> [generation_raises |-> generation_raises,
                            output_exists |-> output_exists],
                   run |-> main([verbose |-> verbose, test |-> test, output |-> output],
                                sessions,
                                [generation_raises |-> generation_raises,
                                 output_exists |-> output_exists])]
    /\ op' = "run_dashboard.main"
    /\ UNCHANGED <<session, messages, loadVars>>

NextRun == CallMain

SpecRun == InitRun /\ [][NextRun]_vars

\* the dashboard was generated and the output file exists: sessions were
\* loaded, nothing was raised, and the file is there
GeneratedAndExists(env) ==
    Len(sessions) > 0 /\ ~env.generation_raises /\ env.output_exists

\* C19: main returns 0 exactly when the dashboard was generated and the output
\* file exists, and 1 when generation fails or raises; --verbose only adds
\* output: a run with --verbose generates the dashboard and returns 0 whenever
\* the same run without --verbose does.
C19_ExitCode ==
    op = "run_dashboard.main" =>
        /\ result.run.exit_code \in {0, 1}
        /\ result.run.exit_code = 0 <=> (result.run.written /\ result.env.output_exists)
        /\ (Len(sessions) = 0 \/ result.env.generation_raises) => result.run.exit_code = 1
        /\ GeneratedAndExists(result.env) => result.run.exit_code = 0 /\ result.run.written

\* without --verbose the exit code is as stated, and with or without it the
\* exit code is 0 only when the file was written and exists
C19_ExitCodePart ==
    op = "run_dashboard.main" =>
        /\ result.run.exit_code \in {0, 1}
        /\ result.run.exit_code = 0 <=> (result.run.written /\ result.env.output_exists)
        /\ (Len(sessions) = 0 \/ result.env.generation_raises) => result.run.exit_code = 1
        /\ (GeneratedAndExists(result.env) /\ ~result.args.verbose) =>
                result.run.exit_code = 0 /\ result.run.written

(***************************************************************************)
(* analyze_gs_scores_refrigerator.py.  A dict is the sequence of its       *)
(* entries in insertion order; gs_scores is a function from the            *)
(* participant ids of the CSV to their scores.                             *)
(***************************************************************************)
is_refrigerator_example(s, msgs) ==
    \/ "refrigerator_example" \in SessionTags(s)
    \/ ~Falsy(msgs) /\ "refrigerator_example" \in MessageTags(msgs[1])

\* a < b for two fractions
RatioLess(a, b) == a.num * b.den < b.num * a.den

\* the statistics of one participant over its sessions that pass the two
\* `continue` tests at the head of the loop
ParticipantStatistics(own, md, include_split_sessions) ==
    LET split == SelectSeq(own, LAMBDA s : gs_is_split_session(s, Some(Get(md, s.id))))
        counted == SelectSeq(own, LAMBDA s :
                       ~(gs_is_split_session(s, Some(Get(md, s.id))) /\ ~include_split_sessions))
        refrigerator == SelectSeq(counted, LAMBDA s : is_refrigerator_example(s, Some(Get(md, s.id))))
        refrigerator_split ==
            SelectSeq(split, LAMBDA s : is_refrigerator_example(s, Some(Get(md, s.id))))
        total == Len(counted)
        total_with_split == total + Len(split)
    IN  [total_sessions |-> total,
         refrigerator_sessions |-> Len(refrigerator),
         non_refrigerator_sessions |-> total - Len(refrigerator),
         split_sessions |-> Len(split),
         refrigerator_split_sessions |-> Len(refrigerator_split),
         session_ids |-> [i \in 1..Len(counted) |-> counted[i].id],
         refrigerator_rate |->
            IF total > 0 THEN Ratio(Len(refrigerator) * 100, total) ELSE Ratio(0, 1),
         refrigerator_rate_with_split |->
            IF total_with_split > 0
            THEN Ratio((Len(refrigerator) + Len(refrigerator_split)) * 100, total_with_split)
            ELSE Ratio(0, 1)]

\* one entry for every participant, in the order in which the loop first
\* reaches a session of theirs
calculate_participant_refrigerator_rates(ss, md, include_split_sessions) ==
    The({
        LET first == SelectSeq([i \in 1..Len(reached) |-> i], LAMBDA i :
                         \A j \in 1..(i - 1) : reached[j].participant # reached[i].participant)
        IN  [k \in 1..Len(first) |->
                [participant_id |-> reached[first[k]].participant,
                 stats |-> ParticipantStatistics(
                               SelectSeq(reached, LAMBDA s :
                                   s.participant = reached[first[k]].participant),
                               md, include_split_sessions)]] :
        reached \in {SelectSeq(ss, LAMBDA s :
                        /\ s.participant # ""
                        /\ ~EndsWith(Chars[s.participant], Chars["@dimagi.com"])
                        /\ s.id # "")}})

\* results.sort(key=lambda x: (-x[1]['refrigerator_rate'], x[2])), a stable sort
SortByRateAndScore(results) ==
    [k \in 1..Len(results) |->
        results[CHOOSE i \in 1..Len(results) :
            Cardinality({j \in 1..Len(results) :
                \/ RatioLess(results[i][2].refrigerator_rate, results[j][2].refrigerator_rate)
                \/ /\ results[j][2].refrigerator_rate = results[i][2].refrigerator_rate
                   /\ \/ results[j][3] < results[i][3]
                      \/ results[j][3] = results[i][3] /\ j < i}) = k - 1]]

\* a variant that joins the scores by the lower-cased identifier
find_high_refrigerator_low_gs_participants_lower(participant_stats, gs_scores, min_refrigerator_rate, max_gs_score) ==
    LET ScoreOf(id) ==
            IF \E g \in DOMAIN gs_scores : Lower(Chars[g]) = Lower(Chars[id])
            THEN Some(gs_scores[CHOOSE g \in DOMAIN gs_scores : Lower(Chars[g]) = Lower(Chars[id])])
            ELSE None
        kept == SelectSeq(participant_stats, LAMBDA e :
                    /\ ScoreOf(e.participant_id) # None
                    /\ ~RatioLess(e.stats.refrigerator_rate, min_refrigerator_rate)
                    /\ ScoreOf(e.participant_id)[1] <= max_gs_score)
    IN  SortByRateAndScore([i \in 1..Len(kept) |->
            <<kept[i].participant_id, kept[i].stats, ScoreOf(kept[i].participant_id)[1]>>])

find_high_refrigerator_low_gs_participants(participant_stats, gs_scores, min_refrigerator_rate, max_gs_score) ==
    LET kept == SelectSeq(participant_stats, LAMBDA e :
                    /\ e.participant_id \in DOMAIN gs_scores
                    /\ ~RatioLess(e.stats.refrigerator_rate, min_refrigerator_rate)
                    /\ gs_scores[e.participant_id] <= max_gs_score)
    IN  SortByRateAndScore([i \in 1..Len(kept) |->
            <<kept[i].participant_id, kept[i].stats, gs_scores[kept[i].participant_id]>>])

(***************************************************************************)
(* SpecScores: main's search for participants with a high refrigerator     *)
(* rate and a low GS score, on every list of up to MaxDashSessions of the  *)
(* ScoreCases and every table of the GsScoreTables.                        *)
(***************************************************************************)
ScoreCases ==
    { \* sessions of three user messages
      Case("chw_01", V3Experiment, <<"refrigerator_example">>, 1, Some(UserTurns(3, 0))),
      Case("chw_01", V3Experiment, <<>>, 1, Some(UserTurns(3, 0))),
      Case("chw_02", V3Experiment, <<>>, 1,
           Some([i \in 1..3 |-> Msg("user", "It was great", <<"refrigerator_example">>)])),
      \* the identifier of chw_01 in capitals
      Case("CHW_01", V3Experiment, <<"refrigerator_example">>, 1, Some(UserTurns(3, 0))),
      \* a session of one user message, a session of a staff account
      Case("chw_02", V3Experiment, <<"refrigerator_example">>, 1, Some(UserTurns(1, 0))),
      Case("tester@dimagi.com", V3Experiment, <<"refrigerator_example">>, 1,
           Some(UserTurns(3, 0))) }

\* the scores of the CSV: none, one or two participants
GsScoreTables ==
    {<<>>} \cup
    {("chw_01" :> a) : a \in {70, 80, 90}} \cup
    {("chw_02" :> b) : b \in {70, 90}} \cup
    {("chw_01" :> a) @@ ("chw_02" :> b) : a \in {70, 80, 90}, b \in {70, 90}}

\* pairs of min_refrigerator_rate and max_gs_score
ScoreThresholds == {<<Ratio(30, 1), 80>>, <<Ratio(50, 1), 80>>, <<Ratio(30, 1), 90>>}

InitScores == InitFrom(ScoreCases)

CallFindHighRefrigeratorLowGs ==
    /\ op = "input"
    /\ \E gs_scores \in GsScoreTables, thresholds \in ScoreThresholds :
        result' = The({
            [participant_stats |-> participant_stats,
             gs_scores |-> gs_scores,
             min_refrigerator_rate |-> thresholds[1],
             max_gs_score |-> thresholds[2],
             value |-> find_high_refrigerator_low_gs_participants(
                           participant_stats, gs_scores, thresholds[1], thresholds[2])] :
            participant_stats \in
                {calculate_participant_refrigerator_rates(sessions, messages_data, FALSE)}})
    /\ op' = "find_high_refrigerator_low_gs_participants"
    /\ UNCHANGED <<session, messages, loadVars>>

NextScores == CallFindHighRefrigeratorLowGs

SpecScores == InitScores /\ [][NextScores]_vars

\* C20: find_high_refrigerator_low_gs_participants returns exactly the
\* participants of the statistics that have a GS score under the identical
\* identifier, a refrigerator_rate >= min_refrigerator_rate and a GS score <=
\* max_gs_score, each once with its statistics and its score, ordered by
\* refrigerator rate descending and, for equal rates, by GS score ascending;
\* a participant without a score never appears.
C20_HighRateLowScore ==
    op = "find_high_refrigerator_low_gs_participants" =>
        LET stats == result.participant_stats
            value == result.value
            expected ==
                {i \in 1..Len(stats) :
                    /\ stats[i].participant_id \in DOMAIN result.gs_scores
                    /\ stats[i].stats.refrigerator_rate.num * result.min_refrigerator_rate.den
                         >= result.min_refrigerator_rate.num * stats[i].stats.refrigerator_rate.den
                    /\ result.gs_scores[stats[i].participant_id] <= result.max_gs_score}
        IN  /\ Len(value) = Cardinality(expected)
            /\ \A i \in expected : \E k \in 1..Len(value) :
                   value[k] = <<stats[i].participant_id, stats[i].stats,
                                result.gs_scores[stats[i].participant_id]>>
            /\ \A k \in 1..Len(value) : value[k][1] \in DOMAIN result.gs_scores
            /\ \A k \in 1..Len(value), l \in 1..Len(value) :
                   k < l =>
                       \/ value[k][2].refrigerator_rate.num * value[l][2].refrigerator_rate.den
                            > value[l][2].refrigerator_rate.num * value[k][2].refrigerator_rate.den
                       \/ /\ value[k][2].refrigerator_rate = value[l][2].refrigerator_rate
                          /\ value[k][3] <= value[l][3]

\* three participants at a rate of 100: chw_02 with the lower score comes
\* before chw_01, listed first in the statistics, and CHW_01, which has no
\* score under its own spelling, is absent
C20_Witness ==
    /\ op = "find_high_refrigerator_low_gs_participants"
    /\ Len(result.participant_stats) = 3
    /\ result.participant_stats[1].participant_id = "chw_01"
    /\ \E i \in 1..3 :
        /\ result.participant_stats[i].participant_id = "CHW_01"
        /\ result.participant_stats[i].stats.refrigerator_rate = Ratio(100, 1)
    /\ result.max_gs_score = 90
    /\ Len(result.value) = 2
    /\ result.value[1][1] = "chw_02" /\ result.value[1][3] = 70
    /\ result.value[2][1] = "chw_01" /\ result.value[2][3] = 90
    /\ result.value[2][2].refrigerator_rate = Ratio(100, 1)

(***************************************************************************)
(* The low-GS dashboard (gs_score_analysis/generate_low_gs_dashboard.py):  *)
(* a SimpleVersionComparisonDashboard whose session loader keeps the       *)
(* sessions of the target participants only.  generate_dashboard is the    *)
(* inherited one, so it loads through the overriding loader.               *)
(***************************************************************************)

\* {pid.lower() for pid in participant_ids}
LowGSDashboard_init(participant_ids) ==
    {Lower(Chars[participant_ids[k]]) : k \in 1..Len(participant_ids)}

\* session.get('participant', {}).get('identifier', '')
ParticipantIdOf(doc) ==
    DictGet(DictGet(doc.v, "participant", JDict(<<>>)).v, "identifier", JStr("")).v

\* the loader with the comparison made on the identifier as it is written
low_gs_load_sessions_from_files_as_written(files, target_ids) ==
    LET base == load_sessions_from_files(files)
    IN  [raised |-> base.raised,
         value |-> SelectSeq(base.value,
                       LAMBDA doc : Chars[ParticipantIdOf(doc)] \in target_ids)]

\* LowGSDashboard.load_sessions_from_files: the base loader's sessions whose
\* lower-cased participant identifier is one of the target ids
low_gs_load_sessions_from_files(files, target_ids) ==
    LET base == load_sessions_from_files(files)
    IN  [raised |-> base.raised,
         value |-> SelectSeq(base.value,
                       LAMBDA doc : Lower(Chars[ParticipantIdOf(doc)]) \in target_ids)]

\* a relevant session whose participant identifier is written in capitals
UpperCaseSession ==
    SessionDoc("s3", Participant("CHW_01"), Experiment("e2b4855f-8550-47ff-87d2-d92018676ff3"))

\* a relevant session of a second field participant
SecondParticipantSession ==
    SessionDoc("s2", Participant("chw_02"), Experiment("5d8be75e-03ff-4e3a-ab6a-e0aff6580986"))

LowGsSessionFiles ==
    {File("session.json", d) :
        d \in {GoodSession, UpperCaseSession, SecondParticipantSession, AnonymousSession,
               StaffSession, OtherExperimentSession}}

\* the participant_ids argument of the constructor
LowGsParticipantIds ==
    {<<>>, <<"CHW_01">>, <<"chw_01", "CHW_01">>, <<"chw_02", "tester@dimagi.com">>}

LowGsMessageFiles ==
    {File(n, JDict([messages |-> JList(<<Msg("user", "5", <<>>)>>)])) :
        n \in {"messages_s1.json", "messages_s2.json"}}

LowGsMessageDirs ==
    {d \in ListsUpTo(LowGsMessageFiles, MaxMessageFiles) :
        \A i, j \in 1..Len(d) : i # j => d[i].name # d[j].name}

InitLowGs ==
    /\ session = PlainSession
    /\ messages = None
    /\ op = "start"
    /\ result = None
    /\ loader = "low_gs"
    /\ session_files = <<>>
    /\ filter_participant_ids = {}
    /\ message_files = <<>>
    /\ sessions = <<>>
    /\ messages_data = <<>>

\* LowGSDashboard(participant_ids): result keeps the argument as it was passed
LowGsConstruct ==
    /\ op = "start"
    /\ loader = "low_gs"
    /\ \E participant_ids \in LowGsParticipantIds :
           /\ filter_participant_ids' = LowGSDashboard_init(participant_ids)
           /\ result' = participant_ids
    /\ op' = "LowGSDashboard.__init__"
    /\ UNCHANGED <<session, messages, loader, session_files, message_files, sessions,
                   messages_data>>

\* sessions = self.load_sessions_from_files() in generate_dashboard
LowGsLoadSessions ==
    /\ op = "LowGSDashboard.__init__"
    /\ \E files \in ListsUpTo(LowGsSessionFiles, MaxSessionFiles) :
           /\ session_files' = files
           /\ sessions' = low_gs_load_sessions_from_files(files, filter_participant_ids).value
           /\ result' = Outcome(low_gs_load_sessions_from_files(files, filter_participant_ids))
    /\ op' = "LowGSDashboard.load_sessions_from_files"
    /\ UNCHANGED <<session, messages, loader, filter_participant_ids, message_files,
                   messages_data>>

\* generate_dashboard stops when no session was loaded; otherwise the
\* messages of the loaded sessions' ids are read
LowGsLoadMessages ==
    /\ op = "LowGSDashboard.load_sessions_from_files"
    /\ result = "returned"
    /\ sessions # <<>>
    /\ \E files \in LowGsMessageDirs :
           /\ message_files' = files
           /\ messages_data' = load_messages_from_files(files, SessionIdsOf(sessions)).value
           /\ result' = Outcome(load_messages_from_files(files, SessionIdsOf(sessions)))
    /\ session_files' = <<>>
    /\ op' = "LowGSDashboard.load_messages_from_files"
    /\ UNCHANGED <<session, messages, loader, filter_participant_ids, sessions>>

NextLowGs == LowGsConstruct \/ LowGsLoadSessions \/ LowGsLoadMessages

SpecLowGs == InitLowGs /\ [][NextLowGs]_vars

\* two spellings that differ at most in the case of their letters
SameIgnoringCase(a, b) ==
    /\ Len(a) = Len(b)
    /\ \A i \in 1..Len(a) :
           \/ a[i] = b[i]
           \/ a[i] \in DOMAIN LowerOf /\ LowerOf[a[i]] = b[i]
           \/ b[i] \in DOMAIN LowerOf /\ LowerOf[b[i]] = a[i]

\* the identifier of a session record is, up to case, one of the target ids
OfTargetParticipant(doc) ==
    \E t \in filter_participant_ids :
        SameIgnoringCase(t, Chars[IF "participant" \in DOMAIN doc.v
                                  THEN doc.v.participant.v.identifier.v ELSE ""])

\* the records the base loader leaves out: staff accounts, other experiments
ExcludedByBase == {StaffSession, OtherExperimentSession}

\* C21: LowGSDashboard.load_sessions_from_files returns exactly the sessions
\* of the base loader's result whose participant identifier equals, up to
\* case, one of the target participant ids, and never a session the base
\* loader left out; the messages the dashboard computes from are those of
\* the returned sessions only.
C21_TargetParticipantsOnly ==
    /\ op = "LowGSDashboard.__init__" =>
           /\ \A k \in 1..Len(result) :
                  \E t \in filter_participant_ids : SameIgnoringCase(t, Chars[result[k]])
           /\ \A t \in filter_participant_ids :
                  \E k \in 1..Len(result) : SameIgnoringCase(t, Chars[result[k]])
    /\ op = "LowGSDashboard.load_sessions_from_files" =>
           /\ result = "returned"
           /\ sessions = SelectSeq(load_sessions_from_files(session_files).value,
                                   OfTargetParticipant)
           /\ \A k \in 1..Len(sessions) : sessions[k] \notin ExcludedByBase
    /\ op = "LowGSDashboard.load_messages_from_files" =>
           /\ \A k \in 1..Len(sessions) :
                  OfTargetParticipant(sessions[k]) /\ sessions[k] \notin ExcludedByBase
           /\ DOMAIN messages_data \subseteq {sessions[k].v.id.v : k \in 1..Len(sessions)}

\* the record of a target participant is written in capitals and is kept,
\* the other participant's record is left out
C21_Witness ==
    /\ op = "LowGSDashboard.load_sessions_from_files"
    /\ filter_participant_ids = {Chars["chw_01"]}
    /\ session_files = <<File("session.json", SecondParticipantSession),
                         File("session.json", UpperCaseSession)>>
    /\ sessions = <<UpperCaseSession>>

\* the messages of a session of another participant are not read
C21_MessagesWitness ==
    /\ op = "LowGSDashboard.load_messages_from_files"
    /\ sessions = <<SecondParticipantSession>>
    /\ Len(message_files) = 2
    /\ DOMAIN messages_data = {"s2"}

(***************************************************************************)
(* The counters of comprehensive_rating_analysis                           *)
(* (comprehensive_rating_analysis.py): staff sessions, sessions without an *)
(* id and sessions without messages are passed over; the question test is  *)
(* the one of calculate_rating_statistics.                                 *)
(***************************************************************************)
comprehensive_rating_analysis(ss, md) ==
    LET staff == SelectSeq(ss, LAMBDA s : EndsWith(Chars[s.participant], Chars["@dimagi.com"]))
        with_messages ==
            SelectSeq(ss, LAMBDA s :
                /\ ~EndsWith(Chars[s.participant], Chars["@dimagi.com"])
                /\ s.id # ""
                /\ ~Falsy(Some(Get(md, s.id))))
    IN  [total_sessions |-> Len(ss),
         dimagi_sessions_excluded |-> Len(staff),
         sessions_with_messages |-> Len(with_messages),
         sessions_with_rating_question |->
            Len(SelectSeq(with_messages, LAMBDA s : has_rating_question(Get(md, s.id)))),
         sessions_with_ratings |->
            Len(SelectSeq(with_messages, LAMBDA s :
                    extract_rating_from_session(s, Some(Get(md, s.id))) # None))]

(***************************************************************************)
(* SpecCounters: the rating counters of the dashboard and of the           *)
(* comprehensive analysis on every list of up to MaxDashSessions sessions  *)
(* drawn from CounterCases.                                                *)
(***************************************************************************)
CounterCases ==
    { \* a question, an answer, and a closing assistant message
      Case("chw_01", V3Experiment, <<>>, 1,
           Some(<<Msg("assistant", RatingQuestion, <<>>),
                  Msg("user", "5", <<>>),
                  Msg("assistant", "Hello, how are you?", <<>>)>>)),
      \* a keyword and a number, but none of the question patterns
      Case("chw_01", V3Experiment, <<>>, 1,
           Some(<<Msg("assistant", "Please rate our chat\nfrom 1 to 5", <<>>),
                  Msg("user", "5", <<>>)>>)),
      \* an answer without a question
      Case("chw_02", V3Experiment, <<>>, 1,
           Some(<<Msg("assistant", "Hello, how are you?", <<>>),
                  Msg("user", "5", <<>>)>>)),
      \* a staff account, a session without user messages, one without messages
      Case("tester@dimagi.com", V3Experiment, <<>>, 1,
           Some(<<Msg("assistant", RatingQuestion, <<>>), Msg("user", "5", <<>>)>>)),
      Case("chw_02", V3Experiment, <<>>, 1,
           Some(<<Msg("assistant", RatingQuestion, <<>>)>>)),
      Case("chw_02", V3Experiment, <<>>, 1, None) }

InitCounters == InitFrom(CounterCases)

CallComprehensiveRatingAnalysis ==
    /\ op = "input"
    /\ op' = "comprehensive_rating_analysis"
    /\ result' = comprehensive_rating_analysis(sessions, messages_data)
    /\ UNCHANGED <<session, messages, loadVars>>

NextCounters == CallRatingStatistics \/ CallComprehensiveRatingAnalysis

SpecCounters == InitCounters /\ [][NextCounters]_vars

\* 0 <= r <= 100 for a fraction r
IsPercentage(r) == r.den > 0 /\ 0 <= r.num /\ r.num <= 100 * r.den

\* some assistant message holds one of the five words and one of the digits 1-5
AsksForRating(msgs) ==
    \E i \in 1..Len(msgs) :
        /\ msgs[i].role = "assistant"
        /\ \E w \in {"rate", "rating", "useful", "session", "coaching"} :
               Contains(Lower(Chars[msgs[i].content]), Chars[w])
        /\ \E p \in 1..Len(Chars[msgs[i].content]) : Chars[msgs[i].content][p] \in Digits15

\* C23: sessions_with_ratings <= sessions_with_rating_questions <=
\* total_sessions in calculate_rating_statistics, a session with an extracted
\* rating being one with a rating question; both percentages are between 0
\* and 100, and 0 when total_sessions is 0; in comprehensive_rating_analysis
\* sessions_with_ratings <= sessions_with_rating_question <=
\* sessions_with_messages.
C23_CountersOrdered ==
    /\ op = "calculate_rating_statistics" =>
           /\ result.sessions_with_ratings <= result.sessions_with_rating_questions
           /\ result.sessions_with_rating_questions <= result.total_sessions
           /\ IsPercentage(result.rating_question_percentage)
           /\ IsPercentage(result.rating_extraction_percentage)
           /\ result.total_sessions = 0 =>
                  /\ result.rating_question_percentage.num = 0
                  /\ result.rating_extraction_percentage.num = 0
    /\ op = "comprehensive_rating_analysis" =>
           /\ result.sessions_with_ratings <= result.sessions_with_rating_question
           /\ result.sessions_with_rating_question <= result.sessions_with_messages
    /\ \A i \in 1..Len(sessions) :
           extract_session_rating(sessions[i], Some(MessagesOfSession(sessions[i]))) # None
               => AsksForRating(MessagesOfSession(sessions[i]))

\* three counted sessions: two with a question, one of them with a rating
C23_Witness ==
    /\ op = "calculate_rating_statistics"
    /\ result.total_sessions = 3
    /\ result.sessions_with_rating_questions = 2
    /\ result.sessions_with_ratings = 1

\* the comprehensive analysis counts a session without user messages
C23_ComprehensiveWitness ==
    /\ op = "comprehensive_rating_analysis"
    /\ result.dimagi_sessions_excluded = 1
    /\ result.sessions_with_messages = 2
    /\ result.sessions_with_rating_question = 2
    /\ result.sessions_with_ratings = 1

(***************************************************************************)
(* SpecMedianMessages: calculate_median_messages_by_method_and_version on  *)
(* every list of up to MaxDashSessions of the MedianMessagesCases.         *)
(***************************************************************************)
MedianMessagesCases ==
    { \* Control bot sessions with one and with two user messages
      Case("chw_01", ControlExperiment, <<>>, 1,
           Some(<<Msg("assistant", "Hello, how are you?", <<>>),
                  Msg("user", "It was great", <<>>)>>)),
      Case("chw_01", ControlExperiment, <<>>, 1,
           Some(<<Msg("user", "Hello, how are you?", <<>>),
                  Msg("user", "It was great", <<>>)>>)),
      \* Control bot sessions without user messages: an assistant message
      \* only, no entry in messages_data
      Case("chw_02", ControlExperiment, <<>>, 1,
           Some(<<Msg("assistant", "Hello, how are you?", <<>>)>>)),
      Case("chw_02", ControlExperiment, <<>>, 1, None),
      \* coaching bot sessions with one user message and with none
      Case("chw_01", V3Experiment, <<>>, 1,
           Some(<<Msg("user", "It was great", <<>>)>>)),
      Case("chw_02", V3Experiment, <<>>, 1,
           Some(<<Msg("assistant", "Hello, how are you?", <<>>)>>)),
      \* a staff account
      Case("tester@dimagi.com", ControlExperiment, <<>>, 1,
           Some(<<Msg("user", "It was great", <<>>)>>)) }

InitMedianMessages == InitFrom(MedianMessagesCases)

NextMedianMessages == CallMedianMessages

SpecMedianMessages == InitMedianMessages /\ [][NextMedianMessages]_vars

\* the number of user messages of a session
UserMessageCount(s) ==
    Cardinality({i \in 1..Len(MessagesOfSession(s)) : MessagesOfSession(s)[i].role = "user"})

\* the sessions of field participants whose method and version are m and v
FieldSessionsOfCell(m, v) ==
    SessionsOf(InCell(AllLoop(SelectSeq(sessions, LAMBDA s :
                   s.participant \notin StaffParticipants), messages_data, 1), m, v))

\* the user-message counts of a list of sessions
CountsOf(ss) == [i \in 1..Len(ss) |-> UserMessageCount(ss[i])]

\* C24: a Control bot session is included in the median even when it has 0
\* user messages, a coaching-bot session only when it has more than 0; an
\* empty group has the median 0.0, a non-empty group the standard median of
\* its sessions' user-message counts.
C24_ControlIncluded ==
    op = "calculate_median_messages_by_method_and_version" =>
        \A m \in MethodSet : \A v \in VersionSet :
            result[m][v] =
                MedianOrZero(CountsOf(SelectSeq(FieldSessionsOfCell(m, v),
                    LAMBDA s : v = "Control" \/ UserMessageCount(s) > 0)))

\* what does hold: in every group, Control included, only the sessions with
\* more than 0 user messages are in the median
C24_MedianPart ==
    op = "calculate_median_messages_by_method_and_version" =>
        \A m \in MethodSet : \A v \in VersionSet :
            result[m][v] =
                MedianOrZero(CountsOf(SelectSeq(FieldSessionsOfCell(m, v),
                    LAMBDA s : UserMessageCount(s) > 0)))

\* Control bot sessions with 0, 1 and 2 user messages: the median is 3/2
C24_MedianPartWitness ==
    /\ op = "calculate_median_messages_by_method_and_version"
    /\ Len(sessions) = 3
    /\ {UserMessageCount(sessions[i]) : i \in 1..3} = {0, 1, 2}
    /\ \A i \in 1..3 : sessions[i].experiment = ControlExperiment
    /\ \A i \in 1..3 : sessions[i].participant \notin StaffParticipants
    /\ result["Unknown"]["Control"] = Ratio(3, 2)

(***************************************************************************)
(* SpecResponse: extract_session_rating on every list of up to             *)
(* MaxResponseMsgs of the ResponseMessages: the rating question and user   *)
(* messages of each response form, among them messages of 99 and of 100    *)
(* characters and messages that reach 100 characters by their surrounding  *)
(* whitespace only.                                                        *)
(***************************************************************************)
MaxResponseMsgs == 2

PaddedDigit ==
    "5                                                                                                   "

PaddedAnswer ==
    "                                                                                I would say 4 out of 5"

Answer99 ==
    "My answer is 2 because the examples were clear and the advice was practical, and I will use it on m"

Answer100 ==
    "My answer is 2 because the examples were clear and the advice was practical, and I will use it on my"

ResponseMessages ==
    {Msg("assistant", RatingQuestion, <<>>)}
    \cup
    {Msg("user", c, <<>>) :
        c \in {"5", " 3 ", "Four", " five\n", "6", "10", "7 or 8", "5 five 4", "Five 4",
               "I would say 4 out of 5", "It was great", Answer99, Answer100,
               PaddedDigit, PaddedAnswer}}

InitResponse ==
    /\ session = PlainSession
    /\ messages \in {Some(m) : m \in ListsUpTo(ResponseMessages, MaxResponseMsgs)}
    /\ op = "input"
    /\ result = None
    /\ NoFiles

NextResponse == CallExtractSessionRating

SpecResponse == InitResponse /\ [][NextResponse]_vars

\* a message without its surrounding whitespace
Trimmed(c) ==
    LET first == CHOOSE i \in 1..(Len(c) + 1) :
                     /\ \A j \in 1..(i - 1) : c[j] \in {" ", "\n", "\t"}
                     /\ i = Len(c) + 1 \/ c[i] \notin {" ", "\n", "\t"}
        last == CHOOSE i \in 0..Len(c) :
                     /\ \A j \in (i + 1)..Len(c) : c[j] \in {" ", "\n", "\t"}
                     /\ i = 0 \/ c[i] \notin {" ", "\n", "\t"}
    IN  SubSeq(c, first, last)

NumberWords == <<"one", "two", "three", "four", "five">>

\* the digits 1-5 of a message with no letter, digit or underscore beside them
Standalone(c) ==
    {p \in 1..Len(c) :
        /\ c[p] \in {"1", "2", "3", "4", "5"}
        /\ \A q \in {p - 1, p + 1} \cap (1..Len(c)) : ~IsWordChar(c[q])}

\* the rating the three response forms give for a message, tried in their
\* order; length is the number of characters compared with 100
FormsRating(c, length) ==
    IF Len(Trimmed(c)) = 1 /\ Trimmed(c)[1] \in {"1", "2", "3", "4", "5"}
    THEN Some(DigitValue[Trimmed(c)[1]])
    ELSE IF \E n \in 1..5 : Lower(Trimmed(c)) = Chars[NumberWords[n]]
    THEN Some(CHOOSE n \in 1..5 : Lower(Trimmed(c)) = Chars[NumberWords[n]])
    ELSE IF length < 100 /\ Standalone(c) # {}
    THEN Some(DigitValue[c[Min(Standalone(c))]])
    ELSE None

\* the rating of a message by the three forms, the length being that of the
\* message as it was sent or that of the trimmed message
AsSent(content) ==
    IF Len(Chars[content]) >= 100 THEN None
    ELSE FormsRating(Chars[content], Len(Chars[content]))

AsTrimmed(content) == FormsRating(Chars[content], Len(Trimmed(Chars[content])))

FormsRatingOf(content, trimmed) == IF trimmed THEN AsTrimmed(content) ELSE AsSent(content)

\* the last user message of the list that yields a rating decides the result
DecidedBy(trimmed) ==
    LET yielding == {i \in 1..Len(MessageList) :
                        /\ MessageList[i].role = "user"
                        /\ FormsRatingOf(MessageList[i].content, trimmed) # None}
    IN  IF yielding = {} THEN None
        ELSE FormsRatingOf(MessageList[Max(yielding)].content, trimmed)

\* the message has a digit and none of its digits is one of 1-5
OnlyOtherDigits(c) ==
    /\ \E p \in 1..Len(c) : c[p] \in DOMAIN DigitValue
    /\ \A p \in 1..Len(c) : c[p] \notin {"1", "2", "3", "4", "5"}

RatingAsked ==
    \E i \in 1..Len(MessageList) :
        MessageList[i].role = "assistant" /\ MessageList[i].content = RatingQuestion

\* C25 as stated: a user message yields the digit it only consists of,
\* otherwise the number it spells, otherwise, being shorter than 100
\* characters, its first standalone digit 1-5; a user message of 100
\* characters or more yields no rating, nor does one whose digits are all
\* outside 1-5.
C25_ResponseFormsAsSent ==
    (op = "dashboard.extract_session_rating" /\ RatingAsked) => result = DecidedBy(FALSE)

\* C25, amended: the three forms in their order, the length being that of
\* the message without its surrounding whitespace: a user message that has
\* 100 characters or more once trimmed yields no rating, nor does one whose
\* digits are all outside 1-5.
C25_ResponseForms ==
    (op = "dashboard.extract_session_rating" /\ RatingAsked) =>
        /\ result = DecidedBy(TRUE)
        /\ \A i \in 1..Len(MessageList) :
               (\/ Len(Trimmed(Chars[MessageList[i].content])) >= 100
                \/ OnlyOtherDigits(Chars[MessageList[i].content]))
                   => AsTrimmed(MessageList[i].content) = None

\* a message of 99 characters yields its standalone digit
C25_Witness ==
    /\ op = "dashboard.extract_session_rating"
    /\ MessageList = <<Msg("assistant", RatingQuestion, <<>>), Msg("user", Answer99, <<>>)>>
    /\ result = Some(2)

\* a message of 100 characters yields nothing
C25_LongWitness ==
    /\ op = "dashboard.extract_session_rating"
    /\ MessageList = <<Msg("assistant", RatingQuestion, <<>>), Msg("user", Answer100, <<>>)>>
    /\ result = None

\* a digit followed by 99 blanks is a message of 100 characters that yields 5
C25_PaddedWitness ==
    /\ op = "dashboard.extract_session_rating"
    /\ MessageList = <<Msg("assistant", RatingQuestion, <<>>), Msg("user", PaddedDigit, <<>>)>>
    /\ Len(Chars[PaddedDigit]) = 100
    /\ result = Some(5)

====
